---- MODULE Spec2Model ----
(***************************************************************************)
(* neopilot-repo-map: extraction of definitions from a source text         *)
(* (crates/neopilot-repo-map/src/lib.rs) and the loading of the            *)
(* configuration (crates/neopilot-repo-map/src/config);                    *)
(* neopilot-tokenizers: the tokenizer State                                *)
(* (crates/neopilot-tokenizers/src).  Each component has a specification   *)
(* of its own, in which the variables of the others stay idle.             *)
(*                                                                         *)
(* A string is a sequence of one-character strings, so that prefixes,      *)
(* substrings, concatenation and the byte order of BTreeMap keys are       *)
(* computed and not assumed.  Option<T> is a sequence of length 0 (None)   *)
(* or 1 (Some).  A BTreeMap is a function whose domain is its key set; its *)
(* iteration order is computed by SortedKeys.                              *)
(***************************************************************************)
EXTENDS Integers, Sequences, FiniteSets, TLC

VARIABLES
    language,        \* argument `language` of the running call
    source,          \* argument `source`: its declarations, in source order
    pc,              \* position of the running call
    captures,        \* what query_cursor.captures yields, in order
    idx,             \* next capture of the loop at lib.rs:389
    class_def_map,   \* lib.rs:352
    captured_nodes,  \* lib.rs:387
    name,            \* lib.rs:407, the name resolved for the last capture
    definitions,     \* lib.rs:351
    result,          \* "none" while running, then "Ok", "Err" or "Panic"
    rendered,        \* the string get_definitions_string returns
    memo,            \* history: one earlier call, as <<>> or <<record>>
    between,         \* history: a call with other arguments ended after memo
    defects,         \* the (language, stage) pairs that fail in this build
    calls,           \* history: the calls made so far
    surfaced,        \* history: per language, the calls that returned Err
    subject,         \* the value handed to the serializer
    text,            \* None, or Some(the string the serializer returned)
    loader,          \* the inputs of the load of the configuration
    config,          \* the Config under construction
    cpc,             \* position of the load
    pending,         \* the pairs the running loop has not met yet
    tokenizer,       \* State::tokenizer: None, or Some of the kind loaded
    succeeded,       \* history: a from_pretrained has returned Ok
    last,            \* history: the last call on the tokenizers and its result
    world,           \* what the network and the tokenizers library answer
    network,         \* the NetworkConfig handed to validate_network_config
    verdict,         \* None, or Some(what validate_network_config returned)
    holder,          \* the thread that holds the lock of State::tokenizer, or 0
    threads,         \* per thread: its running call on the shared State
    failed,          \* history: a from_pretrained of a thread has returned Err
    made,            \* history: the calls the threads have made
    workers,         \* per thread: its running call of extract_definitions
    cells            \* the class_def_map of every call, by the cell that holds it

\* The state of the extraction.
extractVars == <<language, source, pc, captures, idx, class_def_map,
                 captured_nodes, name, definitions, result, rendered, memo,
                 between>>

\* The build and the history of its failures.
faultVars == <<defects, calls, surfaced>>

\* The serializer on its own.
renderVars == <<subject, text>>

\* The load of the configuration.
configVars == <<loader, config, cpc, pending>>

\* The tokenizers.
tokenizerVars == <<tokenizer, succeeded, last, world>>

\* validate_network_config on its own.
validationVars == <<network, verdict>>

\* The threads that share one State of the tokenizers.
threadVars == <<holder, threads, failed, made>>

\* The threads that run extract_definitions side by side.
parallelVars == <<workers, cells>>

\* The components that have a specification apart from the sequential ones.
separateVars == <<validationVars, threadVars, parallelVars>>

\* The state of the components other than the extraction.
componentVars == <<renderVars, configVars, tokenizerVars, separateVars>>

\* What a step of the extraction leaves alone.
otherVars == <<faultVars, componentVars>>

vars == <<extractVars, otherVars>>

(***************************************************************************)
(* Bounds.                                                                 *)
(***************************************************************************)
\* Declarations in the source of one call (Spec).
MaxDecls == 3
\* Declarations in the source of one call of a sequence of calls (CallsSpec).
MaxCallDecls == 2

(***************************************************************************)
(* Strings.                                                                *)
(***************************************************************************)
None == <<>>
Some(x) == <<x>>

\* The characters used, in ascending code point (= UTF-8 byte) order.
Ascii == <<" ", "(", ")", "-", ":", ";", ">",
           "A", "B", "E", "I", "M", "O", "P", "S", "T", "Z",
           "a", "b", "c", "d", "e", "f", "l", "m", "n", "o", "p", "s", "t",
           "u", "v", "x", "{", "}">>

CharCode(c) == CHOOSE i \in 1..Len(Ascii) : Ascii[i] = c

\* char::is_uppercase on the characters used.
IsUppercase(c) == c \in {"A", "B", "E", "I", "M", "O", "P", "S", "T", "Z"}

\* Ord for String: lexicographic on bytes, a proper prefix first.
StrLess(a, b) ==
    \E i \in 1..(Len(b)) :
        /\ i <= Len(a) + 1
        /\ \A j \in 1..(i - 1) : a[j] = b[j]
        /\ \/ i = Len(a) + 1
           \/ i <= Len(a) /\ CharCode(a[i]) < CharCode(b[i])

\* str::contains.
Contains(s, sub) ==
    \E i \in 0..(Len(s) - Len(sub)) :
        \A j \in 1..Len(sub) : s[i + j] = sub[j]

RECURSIVE Concat(_)
\* The concatenation of a sequence of strings.
Concat(ss) == IF ss = <<>> THEN <<>> ELSE Head(ss) \o Concat(Tail(ss))

RECURSIVE Join(_, _)
\* [String]::join(sep).
Join(ss, sep) ==
    IF ss = <<>> THEN <<>>
    ELSE IF Len(ss) = 1 THEN ss[1]
    ELSE ss[1] \o sep \o Join(Tail(ss), sep)

Reverse(s) == [i \in 1..Len(s) |-> s[Len(s) + 1 - i]]

(***************************************************************************)
(* Grammar and query registry.                                             *)
(***************************************************************************)
\* The identifiers get_ts_language maps to a grammar.
SupportedLanguages ==
    {"rust", "python", "php", "java", "javascript", "typescript", "go", "c",
     "cpp", "lua", "ruby", "zig", "scala", "swift", "elixir", "csharp"}

\* A registry whose fallback arm returns a grammar as well.
get_ts_language_any(l) == TRUE

\* get_ts_language(language).is_some()
get_ts_language(l) == l \in SupportedLanguages

\* The identifiers get_definitions_query has an embedded query for.
QueryLanguages ==
    {"c", "cpp", "go", "java", "javascript", "lua", "php", "python", "rust",
     "zig", "typescript", "ruby", "scala", "swift", "elixir", "csharp"}

\* Identifiers that are not registered.
OtherLanguages == {"unknown", "Rust"}

Languages == SupportedLanguages \cup OtherLanguages

\* The steps of a call that the tree-sitter library can refuse:
\* Parser::set_language (lib.rs:340), Parser::parse (lib.rs:343) and
\* Query::new (lib.rs:126).
Stages == {"set_language", "parse", "query"}

\* A build in which the grammars load, parse and match their queries.
SoundBuild ==
    /\ defects = {}
    /\ calls = 0
    /\ surfaced = [l \in Languages |-> 0]

\* parser.set_language(&ts_language.into()).is_ok()
set_language(l) == <<l, "set_language">> \notin defects

\* parser.parse(source, None).is_some()
parse(l) == <<l, "parse">> \notin defects

\* Query::new(&ts_language.into(), contents).is_ok()
QueryNew(l) == <<l, "query">> \notin defects

\* get_definitions_query(language).is_ok(): the grammar is known, the
\* language has an embedded query and the query compiles.
get_definitions_query(l) ==
    get_ts_language(l) /\ l \in QueryLanguages /\ QueryNew(l)


(***************************************************************************)
(* Syntax nodes.  A node is identified by its index in Nodes (Node::id).   *)
(* kind: Node::kind; name, pattern: the text of the child in that field;   *)
(* text: the node's own text; vis: the text of the first child of kind     *)
(* visibility_modifier; parent: Node::parent (0 at the root);              *)
(* field_identifier, operator_name, identifier: the text of the first      *)
(* descendant of that kind; scope: the text of declarator.declarator.scope;*)
(* variable_declarator: the first descendant of that kind (0 if none);     *)
(* tags: the capture names under which the patterns of the embedded query  *)
(* capture the node, in the order the cursor yields them.                  *)
(***************************************************************************)
Blank ==
    [kind |-> "declaration", name |-> None, pattern |-> None, text |-> <<>>,
     vis |-> None, parent |-> 0, field_identifier |-> None,
     operator_name |-> None, identifier |-> None, scope |-> None,
     variable_declarator |-> 0, tags |-> <<>>]

Nodes == <<
    \* 1: pub struct A
    [Blank EXCEPT !.kind = "struct_item", !.name = Some(<<"A">>),
        !.vis = Some(<<"p", "u", "b">>), !.text = <<"p", "u", "b", " ", "A">>,
        !.tags = <<"class">>],
    \* 2: struct B, matched by two patterns of the query
    [Blank EXCEPT !.kind = "struct_item", !.name = Some(<<"B">>),
        !.text = <<"s", " ", "B">>, !.tags = <<"class", "class">>],
    \* 3: a second struct A, without a modifier
    [Blank EXCEPT !.kind = "struct_item", !.name = Some(<<"A">>),
        !.text = <<"s", " ", "A">>, !.tags = <<"class">>],
    \* 4: func Exported() {}
    [Blank EXCEPT !.kind = "function_declaration",
        !.name = Some(<<"E", "x", "p">>), !.text = <<"f", " ", "E", "x", "p">>,
        !.tags = <<"function">>],
    \* 5: func notExported() {}
    [Blank EXCEPT !.kind = "function_declaration",
        !.name = Some(<<"n", "o", "t", "E">>),
        !.text = <<"f", " ", "n", "o", "t", "E">>, !.tags = <<"function">>],
    \* 6: a type with a lowercase name
    [Blank EXCEPT !.kind = "type_declaration", !.name = Some(<<"b">>),
        !.text = <<"t", " ", "b">>, !.tags = <<"class">>],
    \* 7: a namespace M captured as module, as class and as module again
    [Blank EXCEPT !.kind = "namespace", !.name = Some(<<"M">>),
        !.text = <<"m", " ", "M">>, !.tags = <<"module", "class", "module">>],
    \* 8: a module named A
    [Blank EXCEPT !.kind = "module", !.name = Some(<<"A">>),
        !.text = <<"m", " ", "A">>, !.tags = <<"module">>],
    \* 9: a module with a lowercase name
    [Blank EXCEPT !.kind = "module", !.name = Some(<<"m">>),
        !.text = <<"m", " ", "m">>, !.tags = <<"module">>],
    \* 10: a type without a name field
    [Blank EXCEPT !.kind = "type_declaration", !.text = <<"T">>,
        !.tags = <<"class">>],
    \* 11: a type whose name is a MISSING (zero-width) identifier
    [Blank EXCEPT !.kind = "struct_item", !.name = Some(<<>>),
        !.text = <<"s", " ">>, !.tags = <<"class">>],
    \* 12: ruby: class I in the body (node 20) of module O (node 13)
    [Blank EXCEPT !.kind = "class", !.name = Some(<<"I">>), !.parent = 20,
        !.text = <<"c", " ", "I">>, !.tags = <<"class">>],
    \* 13: ruby: module O
    [Blank EXCEPT !.kind = "module", !.name = Some(<<"O">>),
        !.text = <<"m", " ", "O", " ", "c", " ", "I">>, !.tags = <<"module">>],
    \* 14: scala: a definition that binds a pattern and has no name field
    [Blank EXCEPT !.kind = "val_definition", !.pattern = Some(<<"P">>),
        !.text = <<"v", " ", "P">>, !.tags = <<"class">>],
    \* 15: cpp: a method S::f defined outside its class
    [Blank EXCEPT !.kind = "function_definition",
        !.identifier = Some(<<"f">>), !.scope = Some(<<"S">>),
        !.text = <<"S", ":", ":", "f", "(", ")">>, !.tags = <<"function">>],
    \* 16: csharp: the parameter list of a primary constructor of node 17
    [Blank EXCEPT !.kind = "parameter_list", !.parent = 17,
        !.text = <<"(", ")">>, !.tags = <<"method">>],
    \* 17: csharp: class P
    [Blank EXCEPT !.kind = "class_declaration", !.name = Some(<<"P">>),
        !.text = <<"c", " ", "P", "(", ")">>, !.tags = <<"class">>],
    \* 18: csharp: a field declaration whose declarator is node 19
    [Blank EXCEPT !.kind = "field_declaration", !.variable_declarator = 19,
        !.text = <<"t", " ", "v">>, !.tags = <<"class_variable">>],
    \* 19: csharp: the declarator v of node 18
    [Blank EXCEPT !.kind = "variable_declarator", !.name = Some(<<"v">>),
        !.parent = 18, !.text = <<"v">>],
    \* 20: ruby: the body of module O, a node without a name field
    [Blank EXCEPT !.kind = "body_statement", !.parent = 13,
        !.text = <<"c", " ", "I">>],
    \* 21: ruby: a singleton class (class << self) in class I, captured as
    \* class; it has no name field
    [Blank EXCEPT !.kind = "singleton_class", !.parent = 12,
        !.text = <<"c", " ", "s">>, !.tags = <<"class">>]
>>

\* The declarations a source of any language may hold.
CommonDecls == {2, 3, 4, 5, 6, 10, 11}

\* The declarations a source of language l may hold.  A child of kind
\* visibility_modifier (node 1) is taken to exist in the rust grammar, the one
\* language whose modifier the code reads back (lib.rs:516); captures named
\* module (nodes 7, 8, 9, 13) in ruby, the one language for which the code
\* names that capture (lib.rs:466); the kinds of nodes 12 to 21 exist in one
\* grammar only.
DeclsOf(l) ==
    CommonDecls \cup
        (CASE l = "rust" -> {1}
           [] l = "ruby" -> {7, 8, 9, 12, 13, 21}
           [] l = "scala" -> {14}
           [] l = "cpp" -> {15}
           [] l = "csharp" -> {16, 17, 18}
           [] OTHER -> {})

\* The sequences of at most n distinct elements of S.
DistinctSeqs(S, n) ==
    {s \in UNION {[1..k -> S] : k \in 0..n} :
        \A i, j \in 1..Len(s) : i # j => s[i] # s[j]}

(***************************************************************************)
(* Helpers on nodes.                                                       *)
(***************************************************************************)
\* Option::unwrap_or
UnwrapOr(opt, default) == IF opt = None THEN default ELSE opt[1]

\* Option::or_else
OrElse(opt, other) == IF opt = None THEN other ELSE opt

\* csharp_is_primary_constructor
csharp_is_primary_constructor(n) ==
    /\ Nodes[n].kind = "parameter_list"
    /\ Nodes[n].parent # 0
    /\ Nodes[Nodes[n].parent].kind \in {"class_declaration", "record_declaration"}

RECURSIVE RubyPathParts(_)
\* The loop of ruby_find_parent_module_declaration_name: the names of n and
\* of its ancestors of kind module or class, leaf first.
RubyPathParts(n) ==
    IF n = 0 THEN <<>>
    ELSE (IF Nodes[n].kind \in {"module", "class"} /\ Nodes[n].name # None
          THEN <<Nodes[n].name[1]>> ELSE <<>>)
         \o RubyPathParts(Nodes[n].parent)

\* A path joined in the order in which the loop collected it, leaf first.
ruby_find_parent_module_declaration_name_leaf_first(n) ==
    LET path_parts == RubyPathParts(n)
    IN  IF path_parts = <<>> THEN None
        ELSE Some(Join(path_parts, <<":", ":">>))

\* ruby_find_parent_module_declaration_name
ruby_find_parent_module_declaration_name(n) ==
    LET path_parts == RubyPathParts(n)
    IN  IF path_parts = <<>> THEN None
        ELSE Some(Join(Reverse(path_parts), <<":", ":">>))

\* A resolution that gives the empty name to a node without a name field.
ResolveNameOrEmpty(l, tag, n) == UnwrapOr(Nodes[n].name, <<>>)

\* The match at lib.rs:407: the name of the node of a capture.
ResolveName(l, tag, n) ==
    LET node == Nodes[n]
        node_text == node.text
    IN  CASE l = "cpp" ->
               IF tag = "class" THEN UnwrapOr(node.name, node_text)
               ELSE LET ident == OrElse(node.field_identifier,
                                   OrElse(node.operator_name, node.identifier))
                    IN  IF ident # None
                        THEN IF node.scope # None
                             THEN node.scope[1] \o <<":", ":">> \o ident[1]
                             ELSE ident[1]
                        ELSE node_text
          [] l = "scala" ->
               UnwrapOr(OrElse(node.name, node.pattern), node_text)
          [] l = "csharp" ->
               LET identifier ==
                       IF tag = "method" /\ csharp_is_primary_constructor(n)
                       THEN (IF node.parent # 0 THEN node.parent ELSE n)
                       ELSE IF tag = "class_variable"
                       THEN (IF node.variable_declarator # 0
                             THEN node.variable_declarator ELSE n)
                       ELSE n
               IN  UnwrapOr(Nodes[identifier].name, node_text)
          [] l = "ruby" ->
               LET nm == UnwrapOr(node.name, node_text)
               IN  IF tag \in {"class", "module"}
                   THEN UnwrapOr(ruby_find_parent_module_declaration_name(n), nm)
                   ELSE nm
          [] OTHER -> UnwrapOr(node.name, node_text)

\* is_first_letter_uppercase
is_first_letter_uppercase(nm) ==
    IF nm = <<>> THEN FALSE ELSE IsUppercase(nm[1])

(***************************************************************************)
(* Definition builder.                                                     *)
(***************************************************************************)
EmptyMap == <<>>

\* let mut class_def_map = BTreeMap::new(), made anew in every call.  The
\* variant keeps what the map held before.
StaleClassDefMap == class_def_map
NewClassDefMap == EmptyMap

\* let mut captured_nodes = BTreeMap::new()
NewCapturedNodes == EmptyMap

\* enum_def_map and union_def_map: never written after their construction.
enum_def_map == EmptyMap
union_def_map == EmptyMap

Class(type_name, nm) ==
    [type_name |-> type_name, name |-> nm, methods |-> <<>>,
     properties |-> <<>>, visibility_modifier |-> None]

ClassWord == <<"c", "l", "a", "s", "s">>
ModuleWord == <<"m", "o", "d", "u", "l", "e">>

\* An insert that replaces the entry of a name already present.
ensure_class_def_insert(l, nm, map) ==
    [k \in DOMAIN map \cup {nm} |->
        IF k = nm
        THEN Class(IF l = "elixir" THEN ModuleWord ELSE ClassWord, nm)
        ELSE map[k]]

\* ensure_class_def: entry(name).or_insert_with(..)
ensure_class_def(l, nm, map) ==
    IF nm \in DOMAIN map THEN map
    ELSE map @@ (nm :> Class(IF l = "elixir" THEN ModuleWord ELSE ClassWord, nm))

\* ensure_module_def: entry(name).or_insert_with(..)
ensure_module_def(nm, map) ==
    IF nm \in DOMAIN map THEN map
    ELSE map @@ (nm :> Class(ModuleWord, nm))

\* A guard that asks whether any node was seen under the tag.
IsDuplicateAnyNode(seen, tag, id) ==
    tag \in DOMAIN seen /\ seen[tag] # <<>>

\* A guard that never skips.
IsDuplicateNever(seen, tag, id) == FALSE

\* A guard that asks whether the node was seen under any tag.
IsDuplicateAnyTag(seen, tag, id) ==
    \E k \in DOMAIN seen : \E i \in 1..Len(seen[k]) : seen[k][i] = id

\* captured_nodes.get(tag).map_or(false, |v| v.contains(&node_id))
IsDuplicate(seen, tag, id) ==
    tag \in DOMAIN seen /\ \E i \in 1..Len(seen[tag]) : seen[tag][i] = id

\* captured_nodes.entry(tag).or_default().push(node_id)
PushCaptured(seen, tag, id) ==
    IF tag \in DOMAIN seen
    THEN [seen EXCEPT ![tag] = Append(@, id)]
    ELSE seen @@ (tag :> <<id>>)

\* The go rule of the class arm: a name that is not exported is dropped.
GoDrops(l, nm) == l = "go" /\ ~is_first_letter_uppercase(nm)

\* The class arm of the match at lib.rs:480.
ClassArm(l, n, nm, map) ==
    IF nm = <<>> \/ GoDrops(l, nm) THEN map
    ELSE LET visibility_modifier == UnwrapOr(Nodes[n].vis, <<>>)
         IN  [ensure_class_def(l, nm, map) EXCEPT
                 ![nm].visibility_modifier =
                     IF visibility_modifier = <<>> THEN None
                     ELSE Some(visibility_modifier)]

\* The module arm of the match at lib.rs:480.
ModuleArm(nm, map) ==
    IF nm = <<>> THEN map ELSE ensure_module_def(nm, map)

\* One iteration of the capture loop on the maps st = [map, seen].
ProcessCapture(l, st, cap) ==
    IF IsDuplicate(st.seen, cap.tag, cap.node) THEN st
    ELSE LET nm == ResolveName(l, cap.tag, cap.node)
         IN  [map |-> CASE cap.tag = "class" -> ClassArm(l, cap.node, nm, st.map)
                        [] cap.tag = "module" -> ModuleArm(nm, st.map)
                        [] OTHER -> st.map,
              seen |-> PushCaptured(st.seen, cap.tag, cap.node)]

RECURSIVE SortedDesc(_)
\* The keys in descending order.
SortedDesc(S) ==
    IF S = {} THEN <<>>
    ELSE LET m == CHOOSE x \in S : \A y \in S \ {x} : StrLess(y, x)
         IN  <<m>> \o SortedDesc(S \ {m})

\* A map iterated from its last key to its first.
SortedKeysRev(map) == SortedDesc(DOMAIN map)

RECURSIVE SortedAsc(_)
\* The keys in ascending order.
SortedAsc(S) ==
    IF S = {} THEN <<>>
    ELSE LET m == CHOOSE x \in S : \A y \in S \ {x} : StrLess(x, y)
         IN  <<m>> \o SortedAsc(S \ {m})

\* The order in which a BTreeMap<String, _> is iterated.
SortedKeys(map) == SortedAsc(DOMAIN map)

\* A filter that lets every class through.
EmitsAll(l, c) == TRUE

\* The filter of the loop at lib.rs:514.
Emits(l, c) ==
    IF l = "rust"
    THEN /\ c.visibility_modifier # None
         /\ Contains(c.visibility_modifier[1], <<"p", "u", "b">>)
    ELSE TRUE

RECURSIVE EmitClasses(_, _, _)
\* The loop at lib.rs:514 over the keys still to visit.
EmitClasses(l, map, keys) ==
    IF keys = <<>> THEN <<>>
    ELSE (IF Emits(l, map[Head(keys)])
          THEN <<[kind |-> "Class", class |-> map[Head(keys)]]>> ELSE <<>>)
         \o EmitClasses(l, map, Tail(keys))

\* The loops at lib.rs:514-532: classes, then enums, then unions.
EmitDefinitions(l, map) ==
    EmitClasses(l, map, SortedKeys(map))
    \o [i \in 1..Len(SortedKeys(enum_def_map)) |->
           [kind |-> "Enum", enum |-> enum_def_map[SortedKeys(enum_def_map)[i]]]]
    \o [i \in 1..Len(SortedKeys(union_def_map)) |->
           [kind |-> "Union", union |-> union_def_map[SortedKeys(union_def_map)[i]]]]

(***************************************************************************)
(* Serializer.                                                             *)
(***************************************************************************)
\* A function whose parameter text is always put between parentheses.
stringify_function_parens(func) ==
    LET res1 == <<"f", "u", "n", "c", " ">> \o func.name
        res2 == res1 \o <<"(">> \o func.params \o <<")">>
        res3 == IF func.return_type # <<>>
                THEN res2 \o <<" ", "-", ">", " ">> \o func.return_type
                ELSE res2
        res4 == IF func.accessibility_modifier # None
                THEN func.accessibility_modifier[1] \o <<" ">> \o res3
                ELSE res3
    IN  res4 \o <<";">>

\* stringify_function
stringify_function(func) ==
    LET res1 == <<"f", "u", "n", "c", " ">> \o func.name
        res2 == IF func.params = <<>> THEN res1 \o <<"(", ")">>
                ELSE res1 \o func.params
        res3 == IF func.return_type # <<>>
                THEN res2 \o <<" ", "-", ">", " ">> \o func.return_type
                ELSE res2
        res4 == IF func.accessibility_modifier # None
                THEN func.accessibility_modifier[1] \o <<" ">> \o res3
                ELSE res3
    IN  res4 \o <<";">>

\* stringify_variable
stringify_variable(variable) ==
    LET res == <<"v", "a", "r", " ">> \o variable.name
    IN  (IF variable.value_type # <<>>
         THEN res \o <<":">> \o variable.value_type ELSE res) \o <<";">>

\* stringify_enum_item
stringify_enum_item(item) ==
    (IF item.value_type # <<>>
     THEN item.name \o <<":">> \o item.value_type ELSE item.name) \o <<";">>

\* stringify_union_item
stringify_union_item(item) ==
    (IF item.value_type # <<>>
     THEN item.name \o <<":">> \o item.value_type ELSE item.name) \o <<";">>

\* A class rendered with its properties before its methods.
stringify_class_properties_first(class) ==
    class.type_name \o <<" ">> \o class.name \o <<"{">>
    \o Concat([i \in 1..Len(class.properties) |->
                  stringify_variable(class.properties[i])])
    \o Concat([i \in 1..Len(class.methods) |->
                  stringify_function(class.methods[i])])
    \o <<"}", ";">>

\* stringify_class
stringify_class(class) ==
    class.type_name \o <<" ">> \o class.name \o <<"{">>
    \o Concat([i \in 1..Len(class.methods) |->
                  stringify_function(class.methods[i])])
    \o Concat([i \in 1..Len(class.properties) |->
                  stringify_variable(class.properties[i])])
    \o <<"}", ";">>

\* stringify_enum
stringify_enum(enum_def) ==
    <<"e", "n", "u", "m", " ">> \o enum_def.name \o <<"{">>
    \o Concat([i \in 1..Len(enum_def.items) |->
                  stringify_enum_item(enum_def.items[i])])
    \o <<"}", ";">>

\* stringify_union
stringify_union(union_def) ==
    <<"u", "n", "i", "o", "n", " ">> \o union_def.name \o <<"{">>
    \o Concat([i \in 1..Len(union_def.items) |->
                  stringify_union_item(union_def.items[i])])
    \o <<"}", ";">>

\* One arm of the match in stringify_definitions.
stringify_definition(d) ==
    CASE d.kind = "Class" -> stringify_class(d.class)
      [] d.kind = "Module" -> stringify_class(d.class)
      [] d.kind = "Enum" -> stringify_enum(d.enum)
      [] d.kind = "Union" -> stringify_union(d.union)
      [] d.kind = "Func" -> stringify_function(d.func)
      [] d.kind = "Variable" -> stringify_variable(d.variable)

\* A rendering that ends the output with a separator.
stringify_definitions_sep(defs) ==
    Concat([i \in 1..Len(defs) |-> stringify_definition(defs[i])]) \o <<" ">>

\* stringify_definitions
stringify_definitions(defs) ==
    Concat([i \in 1..Len(defs) |-> stringify_definition(defs[i])])

(***************************************************************************)
(* The serializer on its own: stringify_function on any Func and           *)
(* stringify_definitions on any sequence of definitions, methods and       *)
(* properties included (the extraction itself never fills them).           *)
(***************************************************************************)
\* Definitions in a sequence handed to stringify_definitions.
MaxDefs == 2

\* Func values: with and without params, return type and modifier; params
\* is the raw text of a parameter list, with or without its parentheses.
Funcs ==
    [name : {<<"f">>},
     params : {<<>>, <<"a">>, <<"(", "a", ")">>},
     return_type : {<<>>, <<"T">>},
     accessibility_modifier : {None, Some(<<"p", "u", "b">>)}]

\* Variable values, with and without a type.
Variables == [name : {<<"x">>}, value_type : {<<>>, <<"T">>}]

\* The methods of a class, in append order.
MethodLists ==
    LET f1 == [name |-> <<"f">>, params |-> <<"(", "a", ")">>,
               return_type |-> <<"T">>,
               accessibility_modifier |-> Some(<<"p", "u", "b">>)]
        f2 == [name |-> <<"f">>, params |-> <<>>, return_type |-> <<>>,
               accessibility_modifier |-> None]
    IN  {<<>>, <<f1>>, <<f1, f2>>, <<f2, f1>>}

\* The properties of a class and the items of an enum or union.
VariableLists ==
    LET v1 == [name |-> <<"x">>, value_type |-> <<"T">>]
        v2 == [name |-> <<"x">>, value_type |-> <<>>]
    IN  {<<>>, <<v1>>, <<v1, v2>>}

\* Definition values of every variant.
Definitions ==
    {[kind |-> "Class",
      class |-> [type_name |-> ClassWord, name |-> <<"A">>, methods |-> ms,
                 properties |-> ps, visibility_modifier |-> None]] :
        ms \in MethodLists, ps \in VariableLists}
    \cup {[kind |-> "Module",
           class |-> [type_name |-> ModuleWord, name |-> <<"M">>,
                      methods |-> ms, properties |-> <<>>,
                      visibility_modifier |-> None]] : ms \in MethodLists}
    \cup {[kind |-> "Enum", enum |-> [name |-> <<"E">>, items |-> is]] :
              is \in VariableLists}
    \cup {[kind |-> "Union", union |-> [name |-> <<"U">>, items |-> is]] :
              is \in VariableLists}
    \cup {[kind |-> "Func", func |-> f] : f \in {ms[1] : ms \in MethodLists \ {<<>>}}}
    \cup {[kind |-> "Variable", variable |-> v] : v \in Variables}

\* The sequences of at most n definitions.
DefinitionSeqs(n) == UNION {[1..k -> Definitions] : k \in 0..n}

\* No NetworkConfig is under validation.
NoValidation == network = <<>> /\ verdict = <<>>

\* No thread shares a State.
NoThreads == holder = 0 /\ threads = <<>> /\ failed = FALSE /\ made = 0

\* No thread runs an extraction beside another.
NoWorkers == workers = <<>> /\ cells = <<>>

\* The components that have a specification apart are idle.
NothingSeparate == NoValidation /\ NoThreads /\ NoWorkers

\* No tokenizer State exists.
NoState ==
    /\ tokenizer = <<>>
    /\ succeeded = FALSE
    /\ last = <<>>
    /\ world = <<>>

\* No configuration is being loaded.
NoLoad ==
    /\ loader = <<>>
    /\ config = <<>>
    /\ cpc = "idle"
    /\ pending = {}

\* Nothing was handed to the serializer.
NoSubject == [kind |-> "none", func |-> <<>>, defs |-> <<>>]

NothingRendered ==
    /\ subject = NoSubject
    /\ text = None

\* No call of get_definitions_string is running.
NoCall ==
    /\ language = "unknown"
    /\ source = <<>>
    /\ pc = "idle"
    /\ captures = <<>>
    /\ idx = 1
    /\ class_def_map = EmptyMap
    /\ captured_nodes = EmptyMap
    /\ name = <<>>
    /\ definitions = <<>>
    /\ result = "none"
    /\ rendered = <<>>
    /\ memo = <<>>
    /\ between = FALSE

RenderInit ==
    /\ \/ \E f \in Funcs :
              subject = [kind |-> "func", func |-> <<f>>, defs |-> <<>>]
       \/ \E ds \in DefinitionSeqs(MaxDefs) :
              subject = [kind |-> "defs", func |-> <<>>, defs |-> ds]
    /\ text = None
    /\ NoCall
    /\ NothingSeparate
    /\ SoundBuild
    /\ NoLoad
    /\ NoState

\* lib.rs:537-551: stringify_function(&func).
StringifyFunction ==
    /\ subject.kind = "func"
    /\ text = None
    /\ text' = Some(stringify_function(subject.func[1]))
    /\ UNCHANGED <<subject, extractVars, faultVars, separateVars, configVars, tokenizerVars>>

\* lib.rs:608-624: stringify_definitions(&definitions).
StringifyDefinitions ==
    /\ subject.kind = "defs"
    /\ text = None
    /\ text' = Some(stringify_definitions(subject.defs))
    /\ UNCHANGED <<subject, extractVars, faultVars, separateVars, configVars, tokenizerVars>>

RenderNext ==
    \/ StringifyFunction
    \/ StringifyDefinitions

\* The serializer applied to any Func and to any sequence of definitions.
RenderSpec == RenderInit /\ [][RenderNext]_vars

(***************************************************************************)
(* Configuration (crates/neopilot-repo-map/src/config): Config, its        *)
(* defaults, merge_from_file, set_from_str, the environment and manual     *)
(* overrides of ConfigLoader::load, and validate_config.  Of Config the    *)
(* model keeps one field of each type: tokenizer.model (String),           *)
(* tokenizer.max_tokens (usize), network.max_retries (u32) and             *)
(* cache.enabled (bool); the others are never addressed and keep their     *)
(* defaults.                                                               *)
(***************************************************************************)
\* Environment variables of one process.
MaxEnvVars == 2
\* Manual overrides of one loader.
MaxOverrides == 2

UppercaseLetters ==
    <<"A", "B", "C", "D", "E", "F", "G", "H", "I", "J", "K", "L", "M",
      "N", "O", "P", "Q", "R", "S", "T", "U", "V", "W", "X", "Y", "Z">>
LowercaseLetters ==
    <<"a", "b", "c", "d", "e", "f", "g", "h", "i", "j", "k", "l", "m",
      "n", "o", "p", "q", "r", "s", "t", "u", "v", "w", "x", "y", "z">>
Digits == <<"0", "1", "2", "3", "4", "5", "6", "7", "8", "9">>

\* The i with s[i] = c; 0 when there is none.
IndexOf(s, c) ==
    IF \E i \in 1..Len(s) : s[i] = c
    THEN CHOOSE i \in 1..Len(s) : s[i] = c
    ELSE 0

\* str::to_lowercase
to_lowercase(str) ==
    [i \in 1..Len(str) |->
        IF IndexOf(UppercaseLetters, str[i]) # 0
        THEN LowercaseLetters[IndexOf(UppercaseLetters, str[i])]
        ELSE str[i]]

\* str::starts_with
StartsWith(str, prefix) ==
    Len(str) >= Len(prefix) /\ SubSeq(str, 1, Len(prefix)) = prefix

RECURSIVE replace(_, _, _)
\* str::replace(from, to): the matches of from, left to right, not
\* overlapping.
replace(str, from, to) ==
    IF str = <<>> THEN <<>>
    ELSE IF StartsWith(str, from)
         THEN to \o replace(SubSeq(str, Len(from) + 1, Len(str)), from, to)
         ELSE <<Head(str)>> \o replace(Tail(str), from, to)

\* str::strip_prefix
strip_prefix(str, prefix) ==
    IF StartsWith(str, prefix)
    THEN Some(SubSeq(str, Len(prefix) + 1, Len(str)))
    ELSE None

RECURSIVE split(_, _)
\* str::split(c).collect::<Vec<_>>(): at least one piece, possibly empty.
split(str, c) ==
    IF IndexOf(str, c) = 0 THEN <<str>>
    ELSE <<SubSeq(str, 1, IndexOf(str, c) - 1)>>
         \o split(SubSeq(str, IndexOf(str, c) + 1, Len(str)), c)

\* env_prefix of ConfigLoader::new, and the literal of Config::apply_env_overrides.
env_prefix == <<"N", "E", "O", "P", "I", "L", "O", "T", "_">>

\* The path an environment variable name is turned into.
EnvPath(rest) == replace(to_lowercase(rest), <<"_", "_">>, <<".">>)

(***************************************************************************)
(* toml values, as set_from_str builds them.                               *)
(***************************************************************************)
\* str::parse::<bool>().is_ok()
IsBool(value) == value \in {<<"t", "r", "u", "e">>, <<"f", "a", "l", "s", "e">>}

\* Whether every character of str is a digit, and there is one.
AllDigits(str) ==
    str # <<>> /\ \A i \in 1..Len(str) : IndexOf(Digits, str[i]) # 0

\* str::parse::<i64>().is_ok(), for values of the width of the pool.
IsInt(value) ==
    \/ AllDigits(value)
    \/ value # <<>> /\ Head(value) \in {"-", "+"} /\ AllDigits(Tail(value))

RECURSIVE DigitsValue(_, _)
\* The number a string of digits denotes, after the digits read so far.
DigitsValue(acc, str) ==
    IF str = <<>> THEN acc
    ELSE DigitsValue(10 * acc + (IndexOf(Digits, Head(str)) - 1), Tail(str))

\* str::parse::<i64>().unwrap()
IntValue(value) ==
    IF Head(value) = "-" THEN 0 - DigitsValue(0, Tail(value))
    ELSE IF Head(value) = "+" THEN DigitsValue(0, Tail(value))
    ELSE DigitsValue(0, value)

\* str::parse::<f64>().is_ok(), for the decimal notation digits "." digits.
IsFloat(value) ==
    /\ IndexOf(value, ".") # 0
    /\ AllDigits(SubSeq(value, 1, IndexOf(value, ".") - 1))
    /\ AllDigits(SubSeq(value, IndexOf(value, ".") + 1, Len(value)))

\* mod.rs:262-272: the toml value of a string, tried as bool, i64, f64.
ParseValue(value) ==
    IF IsBool(value) THEN [type |-> "Boolean", val |-> (value = <<"t", "r", "u", "e">>)]
    ELSE IF IsInt(value) THEN [type |-> "Integer", val |-> IntValue(value)]
    ELSE IF IsFloat(value) THEN [type |-> "Float", val |-> value]
    ELSE [type |-> "String", val |-> value]

\* A toml table, as the set of its leaves: key path and value.
SingleTable(keys, v) == {[keys |-> keys, value |-> v]}

(***************************************************************************)
(* Config.                                                                 *)
(***************************************************************************)
\* The fields of Config the model keeps, and their types.
FieldTypes ==
    (<<<<"t", "o", "k", "e", "n", "i", "z", "e", "r">>, <<"m", "o", "d", "e", "l">>>> :> "String")
    @@ (<<<<"t", "o", "k", "e", "n", "i", "z", "e", "r">>, <<"m", "a", "x", "_", "t", "o", "k", "e", "n", "s">>>> :> "usize")
    @@ (<<<<"n", "e", "t", "w", "o", "r", "k">>, <<"m", "a", "x", "_", "r", "e", "t", "r", "i", "e", "s">>>> :> "u32")
    @@ (<<<<"c", "a", "c", "h", "e">>, <<"e", "n", "a", "b", "l", "e", "d">>>> :> "bool")

FieldPaths == DOMAIN FieldTypes

\* The tables of Config that hold the fields above.
Sections == {p[1] : p \in FieldPaths}

\* impl Default for Config.
ConfigDefault ==
    (<<<<"t", "o", "k", "e", "n", "i", "z", "e", "r">>, <<"m", "o", "d", "e", "l">>>> :> <<"g", "p", "t", "-", "4", "o">>)
    @@ (<<<<"t", "o", "k", "e", "n", "i", "z", "e", "r">>, <<"m", "a", "x", "_", "t", "o", "k", "e", "n", "s">>>> :> 4096)
    @@ (<<<<"n", "e", "t", "w", "o", "r", "k">>, <<"m", "a", "x", "_", "r", "e", "t", "r", "i", "e", "s">>>> :> 3)
    @@ (<<<<"c", "a", "c", "h", "e">>, <<"e", "n", "a", "b", "l", "e", "d">>>> :> TRUE)

\* Whether serde accepts the toml value v for a field of type ty.  The
\* integers of the pools are far below the upper ends of u32 and usize.
Accepts(ty, v) ==
    CASE ty = "String" -> v.type = "String"
      [] ty = "bool" -> v.type = "Boolean"
      [] ty = "usize" -> v.type = "Integer" /\ v.val >= 0
      [] ty = "u32" -> v.type = "Integer" /\ v.val >= 0

\* Whether a leaf of a table makes the conversion to Config fail: a value
\* where a table of Config is expected, a table or a value of another type
\* where a field is expected.  Keys Config does not have are ignored.
Rejected(leaf) ==
    /\ leaf.keys[1] \in Sections
    /\ \/ Len(leaf.keys) = 1
       \/ /\ SubSeq(leaf.keys, 1, 2) \in FieldPaths
          /\ \/ Len(leaf.keys) > 2
             \/ ~Accepts(FieldTypes[SubSeq(leaf.keys, 1, 2)], leaf.value)

\* Deserialize for Config with #[serde(default)]: every field the table
\* does not give has its default.
Deserialize(table) ==
    [p \in FieldPaths |->
        IF \E leaf \in table : leaf.keys = p
        THEN (CHOOSE leaf \in table : leaf.keys = p).value.val
        ELSE ConfigDefault[p]]

\* A Result: Ok(config) or Err.
Ok(c) == [ok |-> TRUE, config |-> c]
Err(c) == [ok |-> FALSE, config |-> c]

\* toml::from_str::<Config> and toml::Value::try_into::<Config>.
try_into(table, self) ==
    IF \E leaf \in table : Rejected(leaf) THEN Err(self)
    ELSE Ok(Deserialize(table))

\* Config::merge_from_file, on the table the file parses to.
merge_from_file(self, table) == try_into(table, self)

\* Config::set_from_str: a table of its own for the one path, converted to
\* a Config that takes the place of self.
set_from_str(self, path, value) ==
    try_into(SingleTable(split(path, "."), ParseValue(value)), self)

\* A validation that accepts every Config.
validate_config_none(c, writable) == TRUE

\* validate_config on the fields kept, and on the directory of the cache
\* and of the log file, which logging.file names by default.
validate_config(c, writable) ==
    /\ c[<<<<"t", "o", "k", "e", "n", "i", "z", "e", "r">>, <<"m", "a", "x", "_", "t", "o", "k", "e", "n", "s">>>>] # 0
    /\ c[<<<<"n", "e", "t", "w", "o", "r", "k">>, <<"m", "a", "x", "_", "r", "e", "t", "r", "i", "e", "s">>>>] <= 10
    /\ writable

(***************************************************************************)
(* The inputs of a load.                                                   *)
(***************************************************************************)
\* The subsets of S of at most n elements.
UpTo(S, n) == {T \in SUBSET S : Cardinality(T) <= n}

\* The functions from a set of at most n keys to their values.
Maps(keys, values, n) == UNION {[K -> values] : K \in UpTo(keys, n)}

\* Configuration files: none found, a path that does not exist, the file
\* of tests/integration_test.rs, and one whose
\* network.max_retries validation refuses.
Files ==
    {[kind |-> "none", table |-> {}],
     [kind |-> "missing", table |-> {}],
     [kind |-> "file",
      table |-> {[keys |-> <<<<"t", "o", "k", "e", "n", "i", "z", "e", "r">>, <<"m", "o", "d", "e", "l">>>>,
                  value |-> [type |-> "String", val |-> <<"t", "e", "s", "t", "-", "m", "o", "d", "e", "l">>]],
                 [keys |-> <<<<"t", "o", "k", "e", "n", "i", "z", "e", "r">>, <<"m", "a", "x", "_", "t", "o", "k", "e", "n", "s">>>>,
                  value |-> [type |-> "Integer", val |-> 2048]],
                 [keys |-> <<<<"n", "e", "t", "w", "o", "r", "k">>, <<"m", "a", "x", "_", "r", "e", "t", "r", "i", "e", "s">>>>,
                  value |-> [type |-> "Integer", val |-> 5]],
                 [keys |-> <<<<"c", "a", "c", "h", "e">>, <<"e", "n", "a", "b", "l", "e", "d">>>>,
                  value |-> [type |-> "Boolean", val |-> FALSE]]}],
     [kind |-> "file",
      table |-> {[keys |-> <<<<"n", "e", "t", "w", "o", "r", "k">>, <<"m", "a", "x", "_", "r", "e", "t", "r", "i", "e", "s">>>>,
                  value |-> [type |-> "Integer", val |-> 11]]}]}

\* Environment variables: the ones of the tests, one with the section
\* separator the conversion looks for, and one of another program.
EnvVars ==
    {[key |-> <<"N", "E", "O", "P", "I", "L", "O", "T", "_", "T", "O", "K", "E", "N", "I", "Z", "E", "R", "_", "M", "O", "D", "E", "L">>, value |-> <<"e", "n", "v", "-", "m", "o", "d", "e", "l">>],
     [key |-> <<"N", "E", "O", "P", "I", "L", "O", "T", "_", "T", "O", "K", "E", "N", "I", "Z", "E", "R", "_", "_", "M", "O", "D", "E", "L">>, value |-> <<"e", "n", "v", "-", "m", "o", "d", "e", "l">>],
     [key |-> <<"N", "E", "O", "P", "I", "L", "O", "T", "_", "N", "E", "T", "W", "O", "R", "K", "_", "_", "M", "A", "X", "_", "R", "E", "T", "R", "I", "E", "S">>, value |-> <<"7">>],
     [key |-> <<"N", "E", "O", "P", "I", "L", "O", "T", "_", "C", "A", "C", "H", "E", "_", "_", "E", "N", "A", "B", "L", "E", "D">>, value |-> <<"f", "a", "l", "s", "e">>],
     [key |-> <<"H", "O", "M", "E">>, value |-> <<"x">>]}

\* Manual overrides: the keys and values of the tests, and values that
\* the conversion or the validation refuses.
OverrideKeys ==
    {<<"t", "o", "k", "e", "n", "i", "z", "e", "r", ".", "m", "o", "d", "e", "l">>, <<"t", "o", "k", "e", "n", "i", "z", "e", "r", ".", "m", "a", "x", "_", "t", "o", "k", "e", "n", "s">>, <<"n", "e", "t", "w", "o", "r", "k", ".", "m", "a", "x", "_", "r", "e", "t", "r", "i", "e", "s">>}

OverrideValues == {<<"m", "a", "n", "u", "a", "l", "-", "o", "v", "e", "r", "r", "i", "d", "e">>, <<"0">>, <<"9">>, <<"1", ".", "5">>}

Overrides ==
    {o \in Maps(OverrideKeys, OverrideValues, MaxOverrides) :
        \A k \in DOMAIN o :
            \/ k = <<"t", "o", "k", "e", "n", "i", "z", "e", "r", ".", "m", "o", "d", "e", "l">> /\ o[k] = <<"m", "a", "n", "u", "a", "l", "-", "o", "v", "e", "r", "r", "i", "d", "e">>
            \/ k = <<"t", "o", "k", "e", "n", "i", "z", "e", "r", ".", "m", "a", "x", "_", "t", "o", "k", "e", "n", "s">> /\ o[k] = <<"0">>
            \/ k = <<"n", "e", "t", "w", "o", "r", "k", ".", "m", "a", "x", "_", "r", "e", "t", "r", "i", "e", "s">> /\ o[k] \in {<<"9">>, <<"1", ".", "5">>}}

(***************************************************************************)
(* ConfigLoader::load, and Config::apply_env_overrides on a default        *)
(* Config, step by step.  The environment variables are met in the order   *)
(* of the process environment and the manual overrides in the order of a   *)
(* HashMap: any order.                                                     *)
(***************************************************************************)
\* The loads: a file, an environment, the overrides of with_override, and
\* whether the cache directory can be written.
Loaders ==
    {[entry |-> "ConfigLoader::load", file |-> f, env |-> e,
      overrides |-> o, writable |-> w] :
        f \in Files, e \in UpTo(EnvVars, MaxEnvVars), o \in Overrides,
        w \in BOOLEAN}
    \cup {[entry |-> "Config::apply_env_overrides", file |-> f, env |-> e,
           overrides |-> <<>>, writable |-> TRUE] :
             f \in {ff \in Files : ff.kind = "none"},
             e \in UpTo(EnvVars, MaxEnvVars)}

ConfigInit ==
    /\ loader \in Loaders
    /\ config = ConfigDefault
    /\ cpc = IF loader.entry = "ConfigLoader::load" THEN "file" ELSE "env"
    /\ pending = IF loader.entry = "ConfigLoader::load" THEN {} ELSE loader.env
    /\ NoCall
    /\ SoundBuild
    /\ NothingRendered
    /\ NothingSeparate
    /\ NoState

\* The overrides of the loader, as key and value pairs.
OverridePairs ==
    {[key |-> k, value |-> loader.overrides[k]] : k \in DOMAIN loader.overrides}

\* loader.rs:55-57 and 72-87: the file of get_config_path, if any, takes
\* the place of the defaults.
MergeFromFile ==
    /\ cpc = "file"
    /\ LET merged == merge_from_file(config, loader.file.table)
       IN  CASE loader.file.kind = "none" ->
                    /\ config' = config
                    /\ cpc' = "env"
                    /\ pending' = loader.env
             [] loader.file.kind = "missing" ->
                    /\ cpc' = "Err"
                    /\ UNCHANGED <<config, pending>>
             [] loader.file.kind = "file" /\ merged.ok ->
                    /\ config' = merged.config
                    /\ cpc' = "env"
                    /\ pending' = loader.env
             [] OTHER ->
                    /\ cpc' = "Err"
                    /\ UNCHANGED <<config, pending>>
    /\ UNCHANGED <<loader, extractVars, faultVars, separateVars, renderVars, tokenizerVars>>

\* One iteration of a loop over pairs of key and value: set_from_str with
\* the path of the pair, and `?` on its result.
Apply(pair, path) ==
    LET set == set_from_str(config, path, pair.value)
    IN  IF set.ok
        THEN /\ config' = set.config
             /\ pending' = pending \ {pair}
             /\ cpc' = cpc
        ELSE /\ cpc' = "Err"
             /\ UNCHANGED <<config, pending>>

\* loader.rs:119-127 and mod.rs:230-235: one environment variable.
ApplyEnvOverride ==
    /\ cpc = "env"
    /\ \E var \in pending :
           LET rest == strip_prefix(var.key, env_prefix)
           IN  IF rest = None
               THEN /\ pending' = pending \ {var}
                    /\ UNCHANGED <<config, cpc>>
               ELSE Apply(var, EnvPath(rest[1]))
    /\ UNCHANGED <<loader, extractVars, faultVars, separateVars, renderVars, tokenizerVars>>

\* loader.rs:129 and mod.rs:236: the loop over the environment is over.
EnvOverridesApplied ==
    /\ cpc = "env"
    /\ pending = {}
    /\ IF loader.entry = "ConfigLoader::load"
       THEN cpc' = "overrides" /\ pending' = OverridePairs
       ELSE cpc' = "Ok" /\ pending' = pending
    /\ UNCHANGED <<loader, config, extractVars, faultVars, separateVars, renderVars,
                   tokenizerVars>>

\* loader.rs:134-136: one manual override.
ApplyManualOverride ==
    /\ cpc = "overrides"
    /\ \E pair \in pending : Apply(pair, pair.key)
    /\ UNCHANGED <<loader, extractVars, faultVars, separateVars, renderVars, tokenizerVars>>

\* loader.rs:66-68: the final Config is validated and returned.
Validate ==
    /\ cpc = "overrides"
    /\ pending = {}
    /\ cpc' = IF validate_config(config, loader.writable) THEN "Ok" ELSE "Err"
    /\ UNCHANGED <<loader, config, pending, extractVars, faultVars, separateVars, renderVars,
                   tokenizerVars>>

ConfigNext ==
    \/ MergeFromFile
    \/ ApplyEnvOverride
    \/ EnvOverridesApplied
    \/ ApplyManualOverride
    \/ Validate

\* One load of the configuration, from any file, environment and overrides.
ConfigSpec == ConfigInit /\ [][ConfigNext]_vars

(***************************************************************************)
(* Tokenizers (crates/neopilot-tokenizers): the State, from_pretrained,    *)
(* encode and HuggingFaceTokenizer::new.  What the network, the file       *)
(* system and the tokenizers library answer is the world of a behaviour.   *)
(***************************************************************************)
\* A Result of the crate: Ok(value) or Err(TokenizerError::variant(cause)).
Success(value) == [ok |-> TRUE, value |-> value, cause |-> ""]
Failure(variant, cause) == [ok |-> FALSE, value |-> variant, cause |-> cause]

\* The scheme of a URL: the characters before the first ":", a letter
\* first, lowercased; None when the string does not start with a scheme.
Scheme(url) ==
    LET colon == IndexOf(url, ":")
        head == to_lowercase(SubSeq(url, 1, colon - 1))
    IN  IF /\ colon > 1
           /\ IndexOf(LowercaseLetters, head[1]) # 0
           /\ \A i \in 1..Len(head) :
                  \/ IndexOf(LowercaseLetters, head[i]) # 0
                  \/ IndexOf(Digits, head[i]) # 0
                  \/ head[i] \in {"+", "-", "."}
        THEN Some(head)
        ELSE None

\* The host of a URL with a scheme: what stands between "//" and the next
\* "/"; None when no "//" follows the scheme.
Host(url) ==
    LET rest == SubSeq(url, IndexOf(url, ":") + 1, Len(url))
        authority == SubSeq(rest, 3, Len(rest))
    IN  IF ~StartsWith(rest, <<"/", "/">>) THEN None
        ELSE IF IndexOf(authority, "/") = 0 THEN Some(authority)
        ELSE Some(SubSeq(authority, 1, IndexOf(authority, "/") - 1))

\* Url::parse(url): a string without a scheme is a relative URL and an
\* error, and so is an http or https URL without a host.
UrlParse(url) ==
    IF Scheme(url) = None THEN Failure("UrlError", "RelativeUrlWithoutBase")
    ELSE IF /\ Scheme(url)[1] \in {<<"h", "t", "t", "p">>, <<"h", "t", "t", "p", "s">>}
            /\ Host(url) \in {None, Some(<<>>)}
    THEN Failure("UrlError", "EmptyHost")
    ELSE Success([scheme |-> Scheme(url)[1], host |-> Host(url)])

\* is_valid_url(url)
is_valid_url(url) ==
    LET parsed == UrlParse(url)
    IN  IF ~parsed.ok THEN parsed
        ELSE IF parsed.value.scheme # <<"h", "t", "t", "p", "s">>
        THEN Failure("InsecureProtocol", "")
        ELSE IF parsed.value.host = None
        THEN Failure("InvalidUrl", "Missing host in URL")
        ELSE Success("unit")

\* download_tokenizer(url): the cached file, or what the download ends with.
download_tokenizer(url, w) ==
    IF ~is_valid_url(url).ok THEN is_valid_url(url)
    ELSE IF w.download = "Ok" THEN Success("cache_path")
    ELSE Failure(w.download, "")

\* HuggingFaceTokenizer::new(model).  `is_valid_url(model)?` returns the
\* Err of is_valid_url; its Ok is Ok(()), which never selects the branch
\* of the local path (huggingface.rs:23-30).
HuggingFaceTokenizer_new(model, w) ==
    IF ~is_valid_url(model).ok THEN is_valid_url(model)
    ELSE IF ~download_tokenizer(model, w).ok THEN download_tokenizer(model, w)
    ELSE IF w.from_file THEN Success("HuggingFace")
    ELSE Failure("TokenizerError", "from_file")

\* Tiktoken::new(model), for the models from_pretrained hands it.
Tiktoken_new(model) == Success("Tiktoken")

\* The tokenizer from_pretrained builds for the model.
Pretrained(model, w) ==
    IF model \in {<<"g", "p", "t", "-", "4">>, <<"g", "p", "t", "-", "3", ".", "5", "-", "t", "u", "r", "b", "o">>} THEN Tiktoken_new(model)
    ELSE HuggingFaceTokenizer_new(model, w)

\* An encode that takes a State without a tokenizer for a loaded one.
encode_unchecked(tok, encoded) == Success("tokens")

\* encode(state, text) on the tokenizer tok of the state; encoded is whether
\* the encode of the tokenizers library succeeds on the text.
encode(tok, encoded) ==
    CASE tok = None -> Failure("TokenizerError", "Tokenizer not initialized")
      [] tok = Some("Tiktoken") -> Success("tokens")
      [] tok = Some("HuggingFace") ->
             IF encoded THEN Success("tokens")
             ELSE Failure("TokenizerError", "encode")

\* The model arguments: a tiktoken model, the arguments of
\* tests/error_handling.rs, an https URL, a URL of another scheme without
\* "//", and a model name.
Models ==
    {<<"g", "p", "t", "-", "4">>, <<"h", "t", "t", "p", ":", "/", "/", "i", "n", "v", "a", "l", "i", "d", "-", "u", "r", "l">>, <<"h", "t", "t", "p", "s", ":", "/", "/", "h", "/", "t", ".", "j", "s", "o", "n">>,
     <<"/", "n", "o", "n", "e", "x", "i", "s", "t", "e", "n", "t", "/", "p", "a", "t", "h", "/", "t", "o", "/", "t", "o", "k", "e", "n", "i", "z", "e", "r", ".", "j", "s", "o", "n">>, <<"m", "a", "i", "l", "t", "o", ":", "t">>, <<"g", "p", "t", "2">>}

\* The worlds: the model arguments that are paths of existing files, how a
\* download ends and whether Tokenizer::from_file reads the file.
Worlds ==
    [paths : SUBSET {<<"g", "p", "t", "2">>}, download : {"Ok", "NetworkError"},
     from_file : BOOLEAN]

Texts == {<<>>, <<"t", "e", "s", "t">>}

\* No call was made.
NoOp == [op |-> "none", arg |-> <<>>, result |-> Success("none")]

TokenizerInit ==
    /\ tokenizer = None
    /\ succeeded = FALSE
    /\ last = NoOp
    /\ world \in Worlds
    /\ NoCall
    /\ SoundBuild
    /\ NothingRendered
    /\ NothingSeparate
    /\ NoLoad

\* lib.rs:48-64: from_pretrained(state, model).  An Err leaves the state
\* as it was: `?` returns before the assignment.
FromPretrained ==
    /\ \E model \in Models :
           LET built == Pretrained(model, world)
           IN  /\ tokenizer' = IF built.ok THEN Some(built.value) ELSE tokenizer
               /\ succeeded' = (succeeded \/ built.ok)
               /\ last' = [op |-> "from_pretrained", arg |-> model,
                           result |-> IF built.ok THEN Success("unit")
                                      ELSE built]
    /\ UNCHANGED <<world, extractVars, faultVars, separateVars, renderVars, configVars>>

\* lib.rs:77-91: encode(state, text).
Encode ==
    /\ \E txt \in Texts : \E encoded \in BOOLEAN :
           last' = [op |-> "encode", arg |-> txt,
                    result |-> encode(tokenizer, encoded)]
    /\ UNCHANGED <<tokenizer, succeeded, world>>
    /\ UNCHANGED <<extractVars, faultVars, separateVars, renderVars, configVars>>

\* huggingface.rs:20-36: HuggingFaceTokenizer::new(model), called directly.
HuggingFaceNew ==
    /\ \E model \in Models :
           last' = [op |-> "HuggingFaceTokenizer::new", arg |-> model,
                    result |-> HuggingFaceTokenizer_new(model, world)]
    /\ UNCHANGED <<tokenizer, succeeded, world>>
    /\ UNCHANGED <<extractVars, faultVars, separateVars, renderVars, configVars>>

TokenizerNext ==
    \/ FromPretrained
    \/ Encode
    \/ HuggingFaceNew

\* Any calls on one State, in any order.
TokenizerSpec == TokenizerInit /\ [][TokenizerNext]_vars

(***************************************************************************)
(* validate_network_config (config/validation.rs) on its own, on any       *)
(* NetworkConfig.  A Duration is its whole seconds and its nanoseconds.    *)
(***************************************************************************)
\* Duration::as_secs
as_secs(d) == d.secs

\* A validation that does not look at request_timeout.
validate_network_config_no_request_timeout(c) ==
    IF c.max_retries > 10
    THEN Failure("ValidationError", "network.max_retries cannot exceed 10")
    ELSE IF as_secs(c.connect_timeout) = 0
    THEN Failure("ValidationError", "network.connect_timeout must be greater than 0")
    ELSE IF c.max_download_size > 1024 * 1024 * 1024
    THEN Failure("ValidationError", "network.max_download_size cannot exceed 1GB")
    ELSE Success("()")

\* validate_network_config
validate_network_config(c) ==
    IF c.max_retries > 10
    THEN Failure("ValidationError", "network.max_retries cannot exceed 10")
    ELSE IF as_secs(c.connect_timeout) = 0
    THEN Failure("ValidationError", "network.connect_timeout must be greater than 0")
    ELSE IF as_secs(c.request_timeout) = 0
    THEN Failure("ValidationError", "network.request_timeout must be greater than 0")
    ELSE IF c.max_download_size > 1024 * 1024 * 1024
    THEN Failure("ValidationError", "network.max_download_size cannot exceed 1GB")
    ELSE Success("()")

\* Durations below, at and above one second.
Durations ==
    {[secs |-> 0, nanos |-> 0], [secs |-> 0, nanos |-> 999999999],
     [secs |-> 1, nanos |-> 0], [secs |-> 10, nanos |-> 0]}

\* The NetworkConfig values validated: the defaults of NetworkConfig and the
\* values on either side of every limit.
NetworkConfigs ==
    [max_retries : {3, 10, 11},
     connect_timeout : Durations,
     request_timeout : Durations \cup {[secs |-> 30, nanos |-> 0]},
     max_download_size : {100 * 1024 * 1024, 1024 * 1024 * 1024,
                          1024 * 1024 * 1024 + 1}]

ValidationInit ==
    /\ network \in NetworkConfigs
    /\ verdict = None
    /\ NoCall
    /\ SoundBuild
    /\ NothingRendered
    /\ NoLoad
    /\ NoState
    /\ NoThreads
    /\ NoWorkers

\* validate_network_config(&config)
ValidateNetwork ==
    /\ verdict = None
    /\ verdict' = Some(validate_network_config(network))
    /\ UNCHANGED <<network, extractVars, faultVars, renderVars, configVars,
                   tokenizerVars, threadVars, parallelVars>>

ValidationNext == ValidateNetwork

ValidationSpec == ValidationInit /\ [][ValidationNext]_vars

(***************************************************************************)
(* Threads that share one State of the tokenizers (lib.rs:24-91).  A call  *)
(* of from_pretrained or encode locks State::tokenizer, works on the value *)
(* under the lock and releases the lock when it returns, the guard being a *)
(* local of the call.  The lock is never poisoned: nothing modelled        *)
(* panics while it holds the lock.                                         *)
(***************************************************************************)
\* Threads that share the State.
MaxThreads == 2
\* Calls the threads make on the State, all threads together.
MaxThreadCalls == 3

Threads == 1..MaxThreads

\* The models the threads load: a tiktoken model, an https URL, a model name.
ThreadModels == {<<"g", "p", "t", "-", "4">>, <<"h", "t", "t", "p", "s", ":", "/", "/", "h", "/", "t", ".", "j", "s", "o", "n">>, <<"g", "p", "t", "2">>}

\* The worlds the threads run in: no tokenizer file is on the disk.
ThreadWorlds == {w \in Worlds : w.paths = {}}

\* lib.rs:52-61: what the match of from_pretrained builds, for each model the
\* threads load and each world.
Builds ==
    {[model |-> m, world |-> w, built |-> Pretrained(m, w)] :
        m \in ThreadModels, w \in ThreadWorlds}

Built(m, w) == (CHOOSE b \in Builds : b.model = m /\ b.world = w).built

\* A lock that is handed out while another thread holds it.
lock_unguarded(h) == TRUE

\* Mutex::lock returns when no thread holds the lock.
lock(h) == h = 0

\* A thread between two calls.
Idle ==
    [pc |-> "idle", op |-> "none", arg |-> <<>>, result |-> Success("none"),
     before |-> None]

ThreadInit ==
    /\ world \in ThreadWorlds
    /\ tokenizer \in {None} \cup
           {Some(Built(model, world).value) :
               model \in {x \in ThreadModels : Built(x, world).ok}}
    /\ succeeded = (tokenizer # None)
    /\ last = NoOp
    /\ holder = 0
    /\ threads = [t \in Threads |-> Idle]
    /\ failed = FALSE
    /\ made = 0
    /\ NoCall
    /\ SoundBuild
    /\ NothingRendered
    /\ NoLoad
    /\ NoValidation
    /\ NoWorkers

\* What a step of a thread leaves alone besides the State and the threads.
threadFrame ==
    <<world, last, extractVars, faultVars, renderVars, configVars,
      validationVars, parallelVars>>

\* A thread calls encode(&state, text).
CallEncode(t) ==
    /\ threads[t].pc = "idle"
    /\ made < MaxThreadCalls
    /\ made' = made + 1
    /\ \E txt \in Texts :
           threads' = [threads EXCEPT ![t] =
                          [Idle EXCEPT !.pc = "lock", !.op = "encode",
                                       !.arg = txt]]
    /\ UNCHANGED <<tokenizer, succeeded, holder, failed, threadFrame>>

\* A thread calls from_pretrained(&state, model).
CallFromPretrained(t) ==
    /\ threads[t].pc = "idle"
    /\ made < MaxThreadCalls
    /\ made' = made + 1
    /\ \E model \in ThreadModels :
           threads' = [threads EXCEPT ![t] =
                          [Idle EXCEPT !.pc = "lock", !.op = "from_pretrained",
                                       !.arg = model]]
    /\ UNCHANGED <<tokenizer, succeeded, holder, failed, threadFrame>>

\* lib.rs:49, 78: state.tokenizer.lock().  before keeps the value the thread
\* finds under the lock.
Lock(t) ==
    /\ threads[t].pc = "lock"
    /\ lock(holder)
    /\ holder' = t
    /\ threads' = [threads EXCEPT ![t].pc = "locked", ![t].before = tokenizer]
    /\ UNCHANGED <<tokenizer, succeeded, failed, made, threadFrame>>

\* lib.rs:81-90: the match of encode, under the lock.
EncodeLocked(t) ==
    /\ threads[t].pc = "locked"
    /\ threads[t].op = "encode"
    /\ \E encoded \in BOOLEAN :
           threads' = [threads EXCEPT ![t].pc = "computed",
                                      ![t].result = encode(tokenizer, encoded)]
    /\ UNCHANGED <<tokenizer, succeeded, holder, failed, made, threadFrame>>

\* A from_pretrained that empties the State before it builds the tokenizer.
FromPretrainedLocked_emptying(t) ==
    /\ threads[t].pc = "locked"
    /\ threads[t].op = "from_pretrained"
    /\ \E built \in {Built(threads[t].arg, world)} :
           /\ tokenizer' = IF built.ok THEN Some(built.value) ELSE None
           /\ succeeded' = (succeeded \/ built.ok)
           /\ failed' = (failed \/ ~built.ok)
           /\ threads' = [threads EXCEPT
                             ![t].pc = "computed",
                             ![t].result = IF built.ok THEN Success("unit")
                                           ELSE built]
    /\ UNCHANGED <<holder, made, threadFrame>>

\* lib.rs:52-63: the tokenizer is built and assigned under the lock; an Err
\* of its construction returns before the assignment.
FromPretrainedLocked(t) ==
    /\ threads[t].pc = "locked"
    /\ threads[t].op = "from_pretrained"
    /\ \E built \in {Built(threads[t].arg, world)} :
           /\ tokenizer' = IF built.ok THEN Some(built.value) ELSE tokenizer
           /\ succeeded' = (succeeded \/ built.ok)
           /\ failed' = (failed \/ ~built.ok)
           /\ threads' = [threads EXCEPT
                             ![t].pc = "computed",
                             ![t].result = IF built.ok THEN Success("unit")
                                           ELSE built]
    /\ UNCHANGED <<holder, made, threadFrame>>

\* The call returns: its guard is dropped and the lock is free.
Unlock(t) ==
    /\ threads[t].pc = "computed"
    /\ holder' = 0
    /\ threads' = [threads EXCEPT ![t].pc = "idle"]
    /\ UNCHANGED <<tokenizer, succeeded, failed, made, threadFrame>>

ThreadNext ==
    \E t \in Threads :
        \/ CallEncode(t)
        \/ CallFromPretrained(t)
        \/ Lock(t)
        \/ EncodeLocked(t)
        \/ FromPretrainedLocked(t)
        \/ Unlock(t)

\* The threads run whenever one of them can take a step.
ThreadSpec == ThreadInit /\ [][ThreadNext]_vars /\ WF_vars(ThreadNext)

(***************************************************************************)
(* The call get_definitions_string(language, source).                      *)
(***************************************************************************)
RECURSIVE QueryCaptures(_)
\* query_cursor.captures(&query, root_node, ..): the captures of the
\* declarations of the source, in source order.
QueryCaptures(src) ==
    IF src = <<>> THEN <<>>
    ELSE [i \in 1..Len(Nodes[Head(src)].tags) |->
             [tag |-> Nodes[Head(src)].tags[i], node |-> Head(src)]]
         \o QueryCaptures(Tail(src))

\* The arguments of a call: a language and a source of at most n declarations
\* among decls.
Sources(l, n) == DistinctSeqs(DeclsOf(l), n)

Init ==
    /\ language \in Languages
    /\ source \in Sources(language, MaxDecls)
    /\ pc = "start"
    /\ captures = <<>>
    /\ idx = 1
    /\ class_def_map = EmptyMap
    /\ captured_nodes = EmptyMap
    /\ name = <<>>
    /\ definitions = <<>>
    /\ result = "none"
    /\ rendered = <<>>
    /\ memo = <<>>
    /\ between = FALSE
    /\ SoundBuild
    /\ NothingRendered
    /\ NothingSeparate
    /\ NoLoad
    /\ NoState

\* lib.rs:333-336: no grammar for the language, Ok(vec![]).
Unsupported ==
    /\ pc = "start"
    /\ ~get_ts_language(language)
    /\ definitions' = <<>>
    /\ result' = "Ok"
    /\ pc' = "extracted"
    /\ UNCHANGED <<language, source, captures, idx, class_def_map,
                   captured_nodes, name, rendered, memo, between>>
    /\ UNCHANGED otherVars

\* lib.rs:337-387: the parser, the tree, the query, the cursor and the maps
\* of the call.  A query that is missing or does not compile is an Err, which
\* get_definitions_string returns as a runtime error.
ParseAndQuery ==
    /\ pc = "start"
    /\ get_ts_language(language)
    /\ set_language(language)
    /\ parse(language)
    /\ IF get_definitions_query(language)
       THEN /\ captures' = QueryCaptures(source)
            /\ idx' = 1
            /\ class_def_map' = NewClassDefMap
            /\ captured_nodes' = NewCapturedNodes
            /\ pc' = "captures"
            /\ UNCHANGED result
       ELSE /\ result' = "Err"
            /\ pc' = "done"
            /\ UNCHANGED <<captures, idx, class_def_map, captured_nodes>>
    /\ UNCHANGED <<language, source, name, definitions, rendered, memo, between>>
    /\ UNCHANGED otherVars

\* The capture the loop is at.
Current == captures[idx]

\* The maps after the iteration on the current capture.
Stepped ==
    ProcessCapture(language,
                   [map |-> class_def_map, seen |-> captured_nodes], Current)

\* lib.rs:396-401: the node was already captured under this name.
CaptureDuplicate ==
    /\ pc = "captures" /\ idx <= Len(captures)
    /\ IsDuplicate(captured_nodes, Current.tag, Current.node)
    /\ idx' = idx + 1
    /\ class_def_map' = Stepped.map
    /\ captured_nodes' = Stepped.seen
    /\ UNCHANGED <<language, source, pc, captures, name, definitions, result,
                   rendered, memo, between>>
    /\ UNCHANGED otherVars

\* lib.rs:402-500: a capture named class.
CaptureClass ==
    /\ pc = "captures" /\ idx <= Len(captures)
    /\ ~IsDuplicate(captured_nodes, Current.tag, Current.node)
    /\ Current.tag = "class"
    /\ idx' = idx + 1
    /\ name' = ResolveName(language, Current.tag, Current.node)
    /\ class_def_map' = Stepped.map
    /\ captured_nodes' = Stepped.seen
    /\ UNCHANGED <<language, source, pc, captures, definitions, result,
                   rendered, memo, between>>
    /\ UNCHANGED otherVars

\* lib.rs:402-478, 501-505: a capture named module.
CaptureModule ==
    /\ pc = "captures" /\ idx <= Len(captures)
    /\ ~IsDuplicate(captured_nodes, Current.tag, Current.node)
    /\ Current.tag = "module"
    /\ idx' = idx + 1
    /\ name' = ResolveName(language, Current.tag, Current.node)
    /\ class_def_map' = Stepped.map
    /\ captured_nodes' = Stepped.seen
    /\ UNCHANGED <<language, source, pc, captures, definitions, result,
                   rendered, memo, between>>
    /\ UNCHANGED otherVars

\* lib.rs:402-478, 506-509: a capture of any other name.
CaptureOther ==
    /\ pc = "captures" /\ idx <= Len(captures)
    /\ ~IsDuplicate(captured_nodes, Current.tag, Current.node)
    /\ Current.tag \notin {"class", "module"}
    /\ idx' = idx + 1
    /\ name' = ResolveName(language, Current.tag, Current.node)
    /\ class_def_map' = Stepped.map
    /\ captured_nodes' = Stepped.seen
    /\ UNCHANGED <<language, source, pc, captures, definitions, result,
                   rendered, memo, between>>
    /\ UNCHANGED otherVars

\* lib.rs:514-534: the loop is over, the maps are emitted.
Emit ==
    /\ pc = "captures" /\ idx > Len(captures)
    /\ definitions' = EmitDefinitions(language, class_def_map)
    /\ result' = "Ok"
    /\ pc' = "extracted"
    /\ UNCHANGED <<language, source, captures, idx, class_def_map,
                   captured_nodes, name, rendered, memo, between>>
    /\ UNCHANGED otherVars

\* lib.rs:629-630: get_definitions_string renders the definitions.
Stringify ==
    /\ pc = "extracted"
    /\ rendered' = stringify_definitions(definitions)
    /\ pc' = "done"
    /\ UNCHANGED <<language, source, captures, idx, class_def_map,
                   captured_nodes, name, definitions, result, memo, between>>
    /\ UNCHANGED otherVars

Next ==
    \/ Unsupported
    \/ ParseAndQuery
    \/ CaptureDuplicate
    \/ CaptureClass
    \/ CaptureModule
    \/ CaptureOther
    \/ Emit
    \/ Stringify

\* One call of get_definitions_string, on any language and source.
Spec == Init /\ [][Next]_vars

(***************************************************************************)
(* A sequence of calls.  Nothing of a call lives on after it returns: its  *)
(* maps and lists are locals.  memo keeps the arguments and the outcome of *)
(* one earlier call, chosen freely, for comparison with the later ones.    *)
(***************************************************************************)
\* The languages of a sequence of calls: one of each rule of visibility
\* (keyword, case, none), the one with module captures, the one whose classes
\* are modules, and one that is not registered.
CallLanguages == {"rust", "go", "ruby", "elixir", "python", "unknown"}

\* The declarations the sources of a sequence of calls are drawn from: two
\* classes, a function, and a node captured under several names.
CallDecls == {1, 2, 4, 7}

CallSources(l) == DistinctSeqs(CallDecls \cap DeclsOf(l), MaxCallDecls)

CallsInit ==
    /\ language \in CallLanguages
    /\ source \in CallSources(language)
    /\ pc = "start"
    /\ captures = <<>>
    /\ idx = 1
    /\ class_def_map = EmptyMap
    /\ captured_nodes = EmptyMap
    /\ name = <<>>
    /\ definitions = <<>>
    /\ result = "none"
    /\ rendered = <<>>
    /\ memo = <<>>
    /\ between = FALSE
    /\ SoundBuild
    /\ NothingRendered
    /\ NothingSeparate
    /\ NoLoad
    /\ NoState

\* The record memo keeps of the call that has just ended.
Outcome ==
    [language |-> language, source |-> source, result |-> result,
     rendered |-> rendered]

\* Whether the call that has just ended has the arguments of the memo.
SameArguments ==
    memo # <<>> /\ memo[1].language = language /\ memo[1].source = source

\* get_definitions_string returns and is called again, with any arguments.
Return ==
    /\ pc = "done"
    /\ \E l \in CallLanguages : \E src \in CallSources(l) :
           /\ language' = l
           /\ source' = src
    /\ \/ memo' = memo /\ between' = (between \/ (memo # <<>> /\ ~SameArguments))
       \/ memo = <<>> /\ memo' = <<Outcome>> /\ between' = FALSE
    /\ pc' = "start"
    /\ captures' = <<>>
    /\ idx' = 1
    /\ class_def_map' = NewClassDefMap
    /\ captured_nodes' = NewCapturedNodes
    /\ name' = <<>>
    /\ definitions' = <<>>
    /\ result' = "none"
    /\ rendered' = <<>>
    /\ UNCHANGED otherVars

CallsNext ==
    \/ Unsupported
    \/ ParseAndQuery
    \/ CaptureDuplicate
    \/ CaptureClass
    \/ CaptureModule
    \/ CaptureOther
    \/ Emit
    \/ Stringify
    \/ Return

\* Any number of calls of get_definitions_string, one after the other.
CallsSpec == CallsInit /\ [][CallsNext]_vars

(***************************************************************************)
(* A sequence of calls in a build that may be defective: a grammar the     *)
(* parser refuses, a parse that yields no tree, an embedded query that     *)
(* does not compile.                                                       *)
(***************************************************************************)
\* How many calls a sequence has.
MaxFaultCalls == 3

\* The languages of the sequence: two registered ones, one of them with
\* module captures, and one that is not registered.
FaultLanguages == {"rust", "ruby", "unknown"}

FaultInit ==
    /\ language \in FaultLanguages
    /\ source \in CallSources(language)
    /\ pc = "start"
    /\ captures = <<>>
    /\ idx = 1
    /\ class_def_map = EmptyMap
    /\ captured_nodes = EmptyMap
    /\ name = <<>>
    /\ definitions = <<>>
    /\ result = "none"
    /\ rendered = <<>>
    /\ memo = <<>>
    /\ between = FALSE
    /\ defects \in SUBSET ((FaultLanguages \cap SupportedLanguages) \X Stages)
    /\ calls = 1
    /\ surfaced = [l \in Languages |-> 0]
    /\ NothingRendered
    /\ NothingSeparate
    /\ NoLoad
    /\ NoState

\* lib.rs:339-341: set_language fails and unwrap_or_else panics.
SetLanguagePanic ==
    /\ pc = "start"
    /\ get_ts_language(language)
    /\ ~set_language(language)
    /\ result' = "Panic"
    /\ pc' = "aborted"
    /\ UNCHANGED <<language, source, captures, idx, class_def_map,
                   captured_nodes, name, definitions, rendered, memo, between>>
    /\ UNCHANGED otherVars

\* lib.rs:342-344: parse yields no tree and unwrap_or_else panics.
ParsePanic ==
    /\ pc = "start"
    /\ get_ts_language(language)
    /\ set_language(language)
    /\ ~parse(language)
    /\ result' = "Panic"
    /\ pc' = "aborted"
    /\ UNCHANGED <<language, source, captures, idx, class_def_map,
                   captured_nodes, name, definitions, rendered, memo, between>>
    /\ UNCHANGED otherVars

\* get_definitions_string returns, an Err as a runtime error of the caller,
\* and is called again with any arguments.
FaultReturn ==
    /\ pc = "done"
    /\ calls < MaxFaultCalls
    /\ calls' = calls + 1
    /\ surfaced' = IF result = "Err"
                   THEN [surfaced EXCEPT ![language] = @ + 1]
                   ELSE surfaced
    /\ \E l \in FaultLanguages : \E src \in CallSources(l) :
           /\ language' = l
           /\ source' = src
    /\ pc' = "start"
    /\ captures' = <<>>
    /\ idx' = 1
    /\ class_def_map' = NewClassDefMap
    /\ captured_nodes' = NewCapturedNodes
    /\ name' = <<>>
    /\ definitions' = <<>>
    /\ result' = "none"
    /\ rendered' = <<>>
    /\ UNCHANGED <<memo, between, defects, componentVars>>

FaultNext ==
    \/ Unsupported
    \/ ParseAndQuery
    \/ SetLanguagePanic
    \/ ParsePanic
    \/ CaptureDuplicate
    \/ CaptureClass
    \/ CaptureModule
    \/ CaptureOther
    \/ Emit
    \/ Stringify
    \/ FaultReturn

\* Calls of get_definitions_string in a build that may be defective.
FaultSpec == FaultInit /\ [][FaultNext]_vars

(***************************************************************************)
(* extract_definitions as a function of its arguments, for the properties  *)
(* that relate the outcomes of two sources.                                *)
(***************************************************************************)
RECURSIVE CaptureLoop(_, _, _)
\* The loop at lib.rs:389 on the captures caps, from the maps st.
CaptureLoop(l, st, caps) ==
    IF caps = <<>> THEN st
    ELSE CaptureLoop(l, ProcessCapture(l, st, Head(caps)), Tail(caps))

\* extract_definitions(language, source).unwrap()
extract_definitions(l, src) ==
    IF ~get_ts_language(l) THEN <<>>
    ELSE EmitDefinitions(l,
             CaptureLoop(l, [map |-> NewClassDefMap, seen |-> NewCapturedNodes],
                         QueryCaptures(src)).map)

(***************************************************************************)
(* Threads that run extract_definitions side by side.  The parser, the     *)
(* cursor, the maps and the entity list of a call are locals of the call   *)
(* (lib.rs:337-387); the grammar and the query text are constants.  cells  *)
(* is the memory the maps of the calls live in, one cell for each call.    *)
(***************************************************************************)
\* Threads that run a call each.
MaxWorkers == 2

Workers == 1..MaxWorkers

\* The languages of the calls: one with a rule of visibility, the one with
\* module captures, and one that is not registered.
ParallelLanguages == {"rust", "ruby", "unknown"}

\* The declarations of the sources: a class with a modifier, a class of any
\* language and a module, the three of one name.
ParallelDecls == {1, 3, 8}

ParallelSources(l) == DistinctSeqs(ParallelDecls \cap DeclsOf(l), MaxCallDecls)

\* One cell of maps for all the calls.
SharedMapsOf(w) == 1

\* lib.rs:352, 387: BTreeMap::new() and HashMap::new() are locals of the call:
\* the call of worker w has the cell w to itself.
MapsOf(w) == w

\* The maps a call starts from.
NewMaps == [map |-> NewClassDefMap, seen |-> NewCapturedNodes]

\* A worker about to call extract_definitions(language, source).
WorkerCalls ==
    UNION {{[language |-> l, source |-> src, pc |-> "start",
             captures |-> <<>>, idx |-> 1, definitions |-> <<>>,
             beside |-> FALSE] : src \in ParallelSources(l)} :
               l \in ParallelLanguages}

ParallelInit ==
    /\ workers \in [Workers -> WorkerCalls]
    /\ cells = [w \in Workers |-> NewMaps]
    /\ NoCall
    /\ SoundBuild
    /\ NothingRendered
    /\ NoLoad
    /\ NoState
    /\ NoValidation
    /\ NoThreads

\* What a step of a worker leaves alone besides the workers and the cells.
parallelFrame ==
    <<extractVars, faultVars, renderVars, configVars, tokenizerVars,
      validationVars, threadVars>>

\* Another worker is in the loop over its captures.
Overlaps(w) ==
    \E u \in Workers \ {w} :
        workers[u].pc = "captures" /\ workers[u].idx > 1

\* lib.rs:333-336: no grammar for the language, Ok(vec![]).
WorkerUnsupported(w) ==
    /\ workers[w].pc = "start"
    /\ ~get_ts_language(workers[w].language)
    /\ workers' = [workers EXCEPT ![w].pc = "done", ![w].definitions = <<>>]
    /\ UNCHANGED <<cells, parallelFrame>>

\* lib.rs:337-387: the parser, the tree, the query, the cursor and the maps
\* of the call.
WorkerParseAndQuery(w) ==
    /\ workers[w].pc = "start"
    /\ get_ts_language(workers[w].language)
    /\ workers' = [workers EXCEPT
                      ![w].pc = "captures",
                      ![w].captures = QueryCaptures(workers[w].source),
                      ![w].idx = 1]
    /\ cells' = [cells EXCEPT ![MapsOf(w)] = NewMaps]
    /\ UNCHANGED parallelFrame

\* lib.rs:389-512: one iteration of the loop over the captures.
WorkerCapture(w) ==
    /\ workers[w].pc = "captures"
    /\ workers[w].idx <= Len(workers[w].captures)
    /\ cells' = [cells EXCEPT
                    ![MapsOf(w)] =
                        ProcessCapture(workers[w].language, @,
                                       workers[w].captures[workers[w].idx])]
    /\ workers' = [workers EXCEPT
                      ![w].idx = @ + 1,
                      ![w].beside = @ \/ Overlaps(w)]
    /\ UNCHANGED parallelFrame

\* lib.rs:514-536: the loop is over, the maps are emitted and the call
\* returns.
WorkerEmit(w) ==
    /\ workers[w].pc = "captures"
    /\ workers[w].idx > Len(workers[w].captures)
    /\ workers' = [workers EXCEPT
                      ![w].pc = "done",
                      ![w].definitions =
                          EmitDefinitions(workers[w].language,
                                          cells[MapsOf(w)].map)]
    /\ UNCHANGED <<cells, parallelFrame>>

ParallelNext ==
    \E w \in Workers :
        \/ WorkerUnsupported(w)
        \/ WorkerParseAndQuery(w)
        \/ WorkerCapture(w)
        \/ WorkerEmit(w)

\* Calls of extract_definitions on several threads, in any interleaving.
ParallelSpec == ParallelInit /\ [][ParallelNext]_vars

(***************************************************************************)
(* Vocabulary of the properties.                                           *)
(***************************************************************************)
Range(s) =={s[i] : i \in 1..Len(s)}

\* The name of an emitted definition.
DefName(d) ==
    CASE d.kind \in {"Class", "Module"} -> d.class.name
      [] d.kind = "Enum" -> d.enum.name
      [] d.kind = "Union" -> d.union.name

\* The positions of the output that hold a definition named nm.
Emitted(nm) == {i \in 1..Len(definitions) : DefName(definitions[i]) = nm}

\* The declarations of the source captured under tag.
Tagged(tag) == {n \in Range(source) : tag \in Range(Nodes[n].tags)}

\* The declaration carries the public-access keyword.
DeclaredPub(n) ==
    Nodes[n].vis # None /\ Contains(Nodes[n].vis[1], <<"p", "u", "b">>)

\* The permutations of a sequence.
PermutationsOf(s) ==
    {[i \in 1..Len(s) |-> s[f[i]]] : f \in Permutations(1..Len(s))}

Pub == <<"p", "u", "b">>
Exported == <<"E", "x", "p">>
NotExported == <<"n", "o", "t", "E">>

(***************************************************************************)
(* C1                                                                      *)
(***************************************************************************)
\* C1: for a language identifier that is not registered and any source, the
\* call never reaches the parser, returns no error, and ends with Ok, an
\* empty definition sequence and an empty rendered string.
C1_UnsupportedLanguageIsEmptyOk ==
    language \notin SupportedLanguages =>
        /\ pc \in {"start", "extracted", "done"}
        /\ result \in {"none", "Ok"}
        /\ pc \in {"extracted", "done"} => result = "Ok"
        /\ definitions = <<>>
        /\ rendered = <<>>

C1_Witness ==
    /\ language \notin SupportedLanguages
    /\ source # <<>>
    /\ pc = "done"
    /\ result = "Ok"

(***************************************************************************)
(* C2                                                                      *)
(***************************************************************************)
\* C2: for rust, when the call has ended, a type name all of whose
\* class-tagged declarations carry the public-access keyword is the name of
\* exactly one emitted class entity, and a type name none of whose
\* class-tagged declarations carries it is the name of no emitted entity; so
\* the source of `pub struct A` and `struct B` yields the one entity A.
C2_RustPubTypesOnly ==
    (language = "rust" /\ pc = "done") =>
        /\ \A n \in Tagged("class") :
              LET nm == ResolveName(language, "class", n)
                  same == {m \in Tagged("class") :
                              ResolveName(language, "class", m) = nm}
              IN  nm # <<>> =>
                    /\ (\A m \in same : DeclaredPub(m)) =>
                          /\ Cardinality(Emitted(nm)) = 1
                          /\ \A i \in Emitted(nm) : definitions[i].kind = "Class"
                    /\ (\A m \in same : ~DeclaredPub(m)) => Emitted(nm) = {}
        /\ Range(source) = {1, 2} =>
              /\ Len(definitions) = 1
              /\ definitions[1].kind = "Class"
              /\ definitions[1].class.name = <<"A">>

C2_Witness ==
    /\ language = "rust"
    /\ pc = "done"
    /\ Range(source) = {1, 2}
    /\ Emitted(<<"A">>) # {}
    /\ Emitted(<<"B">>) = {}

(***************************************************************************)
(* C3                                                                      *)
(***************************************************************************)
\* C3: for go, when the call has ended, no emitted entity has a name whose
\* first character is not uppercase, and every declaration of the source
\* whose resolved name starts with an uppercase character is emitted,
\* whatever the capture tag.
C3_GoExportRule ==
    (language = "go" /\ pc = "done") =>
        /\ \A i \in 1..Len(definitions) :
              is_first_letter_uppercase(DefName(definitions[i]))
        /\ \A n \in Range(source) : \A tag \in Range(Nodes[n].tags) :
              LET nm == ResolveName(language, tag, n)
              IN  is_first_letter_uppercase(nm) => Emitted(nm) # {}

(***************************************************************************)
(* C4                                                                      *)
(***************************************************************************)
\* C4: for go and a source that defines the functions Exported and
\* notExported, the result holds a definition of Exported and none of
\* notExported.
C4_GoExportedFunction ==
    (language = "go" /\ pc = "done" /\ {4, 5} \subseteq Range(source)) =>
        /\ Emitted(Exported) # {}
        /\ Emitted(NotExported) = {}

(***************************************************************************)
(* C5                                                                      *)
(***************************************************************************)
\* The captures the loop has been through.
Done == SubSeq(captures, 1, idx - 1)

\* C5: within a call no node is recorded twice under one tag, the nodes
\* recorded under a tag are those captured under it so far, and a
\* declaration captured twice under the class tag yields exactly one entity.
C5_CaptureProcessedOnce ==
    pc \in {"captures", "extracted", "done"} /\ result # "Err" =>
        /\ \A tag \in DOMAIN captured_nodes :
              /\ \A i, j \in 1..Len(captured_nodes[tag]) :
                    i # j => captured_nodes[tag][i] # captured_nodes[tag][j]
              /\ Range(captured_nodes[tag]) =
                    {Done[i].node : i \in {k \in 1..Len(Done) : Done[k].tag = tag}}
        /\ \A i \in 1..Len(Done) : Done[i].tag \in DOMAIN captured_nodes
        /\ (pc = "done" /\ language \notin {"rust", "go"}) =>
              \A i, j \in 1..Len(captures) :
                  (i < j /\ captures[i] = captures[j] /\ captures[i].tag = "class"
                     /\ ResolveName(language, "class", captures[i].node) # <<>>)
                  => Cardinality(Emitted(
                         ResolveName(language, "class", captures[i].node))) = 1

C5_Witness ==
    /\ pc = "done"
    /\ language = "python"
    /\ source = <<2>>
    /\ Len(captures) = 2
    /\ captured_nodes["class"] = <<2>>
    /\ Len(definitions) = 1

(***************************************************************************)
(* C6                                                                      *)
(***************************************************************************)
\* No two emitted definitions of one kind have the same name.
UniqueNames ==
    \A i, j \in 1..Len(definitions) :
        (i # j /\ definitions[i].kind = definitions[j].kind)
            => DefName(definitions[i]) # DefName(definitions[j])

\* An iteration of the capture loop keeps every entry of the map, with its
\* name, type word, methods and properties.
EntriesKept ==
    (pc = "captures" /\ pc' = "captures") =>
        \A k \in DOMAIN class_def_map :
            /\ k \in DOMAIN class_def_map'
            /\ class_def_map'[k].name = class_def_map[k].name
            /\ class_def_map'[k].type_name = class_def_map[k].type_name
            /\ class_def_map'[k].methods = class_def_map[k].methods
            /\ class_def_map'[k].properties = class_def_map[k].properties

\* Every class or module capture of a name leaves exactly the entries there
\* were, plus the one of that name if it was absent.
OneEntryPerName ==
    (pc = "captures" /\ pc' = "captures") =>
        /\ DOMAIN class_def_map' \subseteq DOMAIN class_def_map \cup {name'}
        /\ \A k \in DOMAIN class_def_map' : class_def_map'[k].name = k

\* C6: after any sequence of class and module captures the output holds at
\* most one entity per name within a kind; a capture of a name already
\* present adds no entry and keeps the entry's name, type word, methods and
\* properties.
C6_OneEntityPerName ==
    [] UniqueNames /\ [][EntriesKept /\ OneEntryPerName]_vars

C6_Witness ==
    /\ pc = "done"
    /\ source \in {<<3, 1>>, <<3, 8>>, <<8, 3>>}
    /\ captured_nodes # EmptyMap
    /\ Cardinality(DOMAIN class_def_map) = 1
    /\ Len(definitions) = 1

(***************************************************************************)
(* C7                                                                      *)
(***************************************************************************)
\* Classes and modules come first, then enums, then unions.
KindRank(d) ==
    CASE d.kind \in {"Class", "Module"} -> 1
      [] d.kind = "Enum" -> 2
      [] d.kind = "Union" -> 3

\* C7: the emitted sequence lists the class and module entities first, in
\* strictly ascending byte order of their names, then the enums, then the
\* unions, whatever the order of the captures.
C7_EmissionOrder ==
    \A i, j \in 1..Len(definitions) :
        i < j =>
            /\ KindRank(definitions[i]) <= KindRank(definitions[j])
            /\ KindRank(definitions[i]) = KindRank(definitions[j])
                  => StrLess(DefName(definitions[i]), DefName(definitions[j]))

C7_Witness ==
    /\ pc = "done"
    /\ language = "python"
    /\ source = <<2, 3>>
    /\ Len(definitions) = 2
    /\ DefName(definitions[1]) = <<"A">>
    /\ DefName(definitions[2]) = <<"B">>

(***************************************************************************)
(* C8                                                                      *)
(***************************************************************************)
\* The outcome of the call equals that of the same declarations in every
\* other order: the same set of entities and the same rendered string.
SameUnderReordering ==
    \A p \in PermutationsOf(source) :
        /\ Range(extract_definitions(language, p)) = Range(definitions)
        /\ stringify_definitions(extract_definitions(language, p)) = rendered

DistinctNames ==
    \A n, m \in Range(source) :
        n # m =>
            \A t \in Range(Nodes[n].tags) \cap {"class", "module"},
               u \in Range(Nodes[m].tags) \cap {"class", "module"} :
                ResolveName(language, t, n) # ResolveName(language, u, m)

C9_SameArgumentsSameOutput ==
    (pc = "done" /\ SameArguments) =>
        /\ memo[1].result = result
        /\ memo[1].rendered = rendered

C9_Witness ==
    /\ pc = "done"
    /\ SameArguments
    /\ between
    /\ rendered # <<>>

(***************************************************************************)
(* C10                                                                     *)
(***************************************************************************)
\* C10: for every supported language the call on the empty source ends with
\* Ok, an empty definition sequence and an empty rendered string.
C10_EmptySourceIsEmpty ==
    (language \in SupportedLanguages /\ source = <<>>) =>
        /\ result \in {"none", "Ok"}
        /\ pc = "done" => result = "Ok"
        /\ definitions = <<>>
        /\ rendered = <<>>

C10_Witness ==
    /\ language \in SupportedLanguages
    /\ source = <<>>
    /\ pc = "done"
    /\ result = "Ok"

(***************************************************************************)
(* C11.  For a supported language, a call ends by returning the rendered   *)
(* string or a runtime error, the error only when the embedded query does  *)
(* not compile; no failure of the parser aborts the process.               *)
(***************************************************************************)
C11_ErrorOnlyForQueryFailure ==
    (pc \in {"done", "aborted"} /\ get_ts_language(language)) =>
        /\ result \in {"Ok", "Err"}
        /\ (result = "Err" => ~QueryNew(language))

(***************************************************************************)
(* C12.  The hard error of a language whose embedded query does not        *)
(* compile is surfaced once for that language over a sequence of calls,    *)
(* not once per call.                                                      *)
(***************************************************************************)
C12_HardErrorOncePerLanguage ==
    \A l \in DOMAIN surfaced : surfaced[l] <= 1

(***************************************************************************)
(* C13.  stringify_function renders the modifier and one space when there  *)
(* is a modifier, "func " and the name, the parameter list, " -> " and the *)
(* return type when there is one, and ";".                                 *)
(***************************************************************************)
\* The Func that was rendered.
RenderedFunc == subject.func[1]

\* Whether the Func handed to stringify_function has been rendered.
FuncRendered == subject.kind = "func" /\ text # None

\* The rendering of the claim around a given rendering of the parameters.
FuncGrammar(func, params) ==
    (IF func.accessibility_modifier # None
     THEN func.accessibility_modifier[1] \o <<" ">> ELSE <<>>)
    \o <<"f", "u", "n", "c", " ">> \o func.name
    \o params
    \o (IF func.return_type # <<>>
        THEN <<" ", "-", ">", " ">> \o func.return_type ELSE <<>>)
    \o <<";">>

\* As stated: a non-empty parameter list is enclosed in "(" and ")".
C13_ParamsEnclosed ==
    FuncRendered =>
        text[1] = FuncGrammar(RenderedFunc,
                              IF RenderedFunc.params # <<>>
                              THEN <<"(">> \o RenderedFunc.params \o <<")">>
                              ELSE <<"(", ")">>)

\* As the code does: a non-empty params is rendered as it is, "()" stands
\* for an empty one.
C13_ParamsVerbatim ==
    FuncRendered =>
        text[1] = FuncGrammar(RenderedFunc,
                              IF RenderedFunc.params # <<>>
                              THEN RenderedFunc.params
                              ELSE <<"(", ")">>)

\* A Func with all four parts was rendered, its params without parentheses
\* of their own.
C13_Witness ==
    /\ FuncRendered
    /\ RenderedFunc.params = <<"a">>
    /\ RenderedFunc.return_type # <<>>
    /\ RenderedFunc.accessibility_modifier # None
    /\ text[1] = <<"p", "u", "b", " ", "f", "u", "n", "c", " ", "f", "a",
                   " ", "-", ">", " ", "T", ";">>

(***************************************************************************)
(* C14.  The rendered string is the renderings of the definitions one      *)
(* after the other, in the order of the sequence, with nothing between,    *)
(* before or after them; a class or module is its type word, a space, its  *)
(* name, "{", its methods in append order, its properties in append order, *)
(* "}" and ";"; the rendering of every entity and nested item ends with    *)
(* ";".                                                                    *)
(***************************************************************************)
\* Whether the sequence handed to stringify_definitions has been rendered.
DefsRendered == subject.kind = "defs" /\ text # None

\* The last character of a string.
Last(str) == str[Len(str)]

Whitespace == {" ", "\t", "\n", "\r"}

RECURSIVE InOrder(_, _)
\* strs[1], then strs[2], and so on, after the string acc.
InOrder(acc, strs) ==
    IF strs = <<>> THEN acc ELSE InOrder(acc \o Head(strs), Tail(strs))

\* The rendering of a class or module, as the claim words it.
ClassGrammar(class) ==
    InOrder(InOrder(class.type_name \o <<" ">> \o class.name \o <<"{">>,
                    [i \in 1..Len(class.methods) |->
                        stringify_function(class.methods[i])]),
            [i \in 1..Len(class.properties) |->
                stringify_variable(class.properties[i])])
    \o <<"}", ";">>

\* The rendering of one definition.
DefinitionGrammar(d) ==
    IF d.kind \in {"Class", "Module"} THEN ClassGrammar(d.class)
    ELSE stringify_definition(d)

\* The items nested in a definition, rendered.
NestedRenderings(d) ==
    CASE d.kind \in {"Class", "Module"} ->
             {stringify_function(d.class.methods[i]) :
                  i \in 1..Len(d.class.methods)}
             \cup {stringify_variable(d.class.properties[i]) :
                       i \in 1..Len(d.class.properties)}
      [] d.kind = "Enum" ->
             {stringify_enum_item(d.enum.items[i]) : i \in 1..Len(d.enum.items)}
      [] d.kind = "Union" ->
             {stringify_union_item(d.union.items[i]) :
                  i \in 1..Len(d.union.items)}
      [] OTHER -> {}

C14_ConcatenationInOrder ==
    DefsRendered =>
        /\ text[1] = InOrder(<<>>, [i \in 1..Len(subject.defs) |->
                                       DefinitionGrammar(subject.defs[i])])
        /\ text[1] # <<>> =>
               Head(text[1]) \notin Whitespace /\ Last(text[1]) = ";"
        /\ subject.defs = <<>> => text[1] = <<>>
        /\ \A i \in 1..Len(subject.defs) :
               /\ Last(stringify_definition(subject.defs[i])) = ";"
               /\ \A r \in NestedRenderings(subject.defs[i]) : Last(r) = ";"

\* A class with two methods and two properties, then an enum with items,
\* were rendered.
C14_Witness ==
    /\ DefsRendered
    /\ Len(subject.defs) = 2
    /\ subject.defs[1].kind = "Class"
    /\ Len(subject.defs[1].class.methods) = 2
    /\ subject.defs[1].class.methods[1].params # <<>>
    /\ Len(subject.defs[1].class.properties) = 2
    /\ subject.defs[2].kind = "Enum"
    /\ Len(subject.defs[2].enum.items) = 2
    /\ text[1] = <<"c", "l", "a", "s", "s", " ", "A", "{",
                   "p", "u", "b", " ", "f", "u", "n", "c", " ", "f",
                   "(", "a", ")", " ", "-", ">", " ", "T", ";",
                   "f", "u", "n", "c", " ", "f", "(", ")", ";",
                   "v", "a", "r", " ", "x", ":", "T", ";",
                   "v", "a", "r", " ", "x", ";", "}", ";",
                   "e", "n", "u", "m", " ", "E", "{",
                   "x", ":", "T", ";", "x", ";", "}", ";">>

(***************************************************************************)
(* Vocabulary of the properties of the configuration.                      *)
(***************************************************************************)
\* ConfigLoader::load returned Ok(config).
Loaded == loader.entry = "ConfigLoader::load" /\ cpc = "Ok"

\* The manual overrides whose key is the path p.
OverridesOf(p) == {pair \in OverridePairs : split(pair.key, ".") = p}

\* The environment variables whose name is turned into the path p.
EnvVarsOf(p) ==
    {var \in loader.env :
        /\ strip_prefix(var.key, env_prefix) # None
        /\ split(EnvPath(strip_prefix(var.key, env_prefix)[1]), ".") = p}

\* The leaves of the configuration file at the path p.
LeavesOf(p) == {leaf \in loader.file.table : leaf.keys = p}

\* The value the source of highest precedence gives the field at p.
Precedence(p) ==
    IF OverridesOf(p) # {}
    THEN ParseValue((CHOOSE pair \in OverridesOf(p) : TRUE).value).val
    ELSE IF EnvVarsOf(p) # {}
    THEN ParseValue((CHOOSE var \in EnvVarsOf(p) : TRUE).value).val
    ELSE IF LeavesOf(p) # {}
    THEN (CHOOSE leaf \in LeavesOf(p) : TRUE).value.val
    ELSE ConfigDefault[p]

(***************************************************************************)
(* C15.  In the Config that load returns every field has the value of the  *)
(* source of highest precedence that sets it: manual override, then        *)
(* environment, then file, then default; a field set by a lower source     *)
(* keeps that value when the higher ones set other fields only.            *)
(***************************************************************************)
C15_HighestPrecedenceWins ==
    Loaded => \A p \in FieldPaths : config[p] = Precedence(p)

(***************************************************************************)
(* C16.  After a load with several manual overrides on distinct keys,      *)
(* every overridden key has its override value, whatever the order in      *)
(* which they were applied.                                                *)
(***************************************************************************)
C16_EveryOverrideHolds ==
    Loaded =>
        \A pair \in OverridePairs :
            config[split(pair.key, ".")] = ParseValue(pair.value).val

(***************************************************************************)
(* C17.  NEOPILOT_TOKENIZER_MODEL=v makes tokenizer.model v and            *)
(* NEOPILOT_NETWORK__MAX_RETRIES=n makes network.max_retries n, by         *)
(* Config::apply_env_overrides and by ConfigLoader::load (no manual        *)
(* override, which would outrank the environment, being given).            *)
(***************************************************************************)
C17_EnvVariableSetsField ==
    (cpc = "Ok" /\ OverridePairs = {}) =>
        \A var \in loader.env :
            /\ var.key = <<"N", "E", "O", "P", "I", "L", "O", "T", "_", "T", "O", "K", "E", "N", "I", "Z", "E", "R", "_", "M", "O", "D", "E", "L">> =>
                   config[<<<<"t", "o", "k", "e", "n", "i", "z", "e", "r">>, <<"m", "o", "d", "e", "l">>>>] = var.value
            /\ var.key = <<"N", "E", "O", "P", "I", "L", "O", "T", "_", "N", "E", "T", "W", "O", "R", "K", "_", "_", "M", "A", "X", "_", "R", "E", "T", "R", "I", "E", "S">> =>
                   config[<<<<"n", "e", "t", "w", "o", "r", "k">>, <<"m", "a", "x", "_", "r", "e", "t", "r", "i", "e", "s">>>>] = IntValue(var.value)

(***************************************************************************)
(* C18.  Every Config that load returns satisfies the rules of             *)
(* validate_config, and the load whose manual override is                  *)
(* tokenizer.max_tokens = 0 ends in an error, whatever the file and the    *)
(* environment.                                                            *)
(***************************************************************************)
\* The manual override of tests/config_test.rs:81-83.
ZeroMaxTokens == [key |-> <<"t", "o", "k", "e", "n", "i", "z", "e", "r", ".", "m", "a", "x", "_", "t", "o", "k", "e", "n", "s">>, value |-> <<"0">>]

\* load has returned.
LoadReturned == loader.entry = "ConfigLoader::load" /\ cpc \in {"Ok", "Err"}

C18_ReturnedConfigIsValid ==
    /\ Loaded =>
           /\ config[<<<<"t", "o", "k", "e", "n", "i", "z", "e", "r">>, <<"m", "a", "x", "_", "t", "o", "k", "e", "n", "s">>>>] > 0
           /\ config[<<<<"n", "e", "t", "w", "o", "r", "k">>, <<"m", "a", "x", "_", "r", "e", "t", "r", "i", "e", "s">>>>] <= 10
           /\ loader.writable
    /\ (LoadReturned /\ OverridePairs = {ZeroMaxTokens}) => cpc = "Err"

\* The override reached the Config, over a file and an environment that
\* set other fields, and the validation refused it.
C18_Witness ==
    /\ LoadReturned
    /\ OverridePairs = {ZeroMaxTokens}
    /\ loader.file.kind = "file"
    /\ loader.env # {}
    /\ loader.writable
    /\ pending = {}
    /\ config[<<<<"t", "o", "k", "e", "n", "i", "z", "e", "r">>, <<"m", "a", "x", "_", "t", "o", "k", "e", "n", "s">>>>] = 0
    /\ cpc = "Err"

(***************************************************************************)
(* C19.  On a State on which no from_pretrained has succeeded, every       *)
(* encode returns Err(TokenizerError::TokenizerError) and does not panic;  *)
(* after a from_pretrained has succeeded, encode returns Ok.               *)
(***************************************************************************)
\* The last call was encode.
Encoded == last.op = "encode"

\* As stated: Ok after any successful from_pretrained.
C19_EncodeOkOnceLoaded ==
    Encoded =>
        /\ ~succeeded => (~last.result.ok /\ last.result.value = "TokenizerError")
        /\ succeeded => last.result.ok

\* Once a from_pretrained has succeeded, encode answers with the loaded
\* tokenizer: Ok with a Tiktoken one, and with a HuggingFace one Ok or the
\* error of the library's encode; before that, "Tokenizer not initialized".
C19_EncodeUsesLoadedTokenizer ==
    Encoded =>
        /\ ~succeeded =>
               last.result = Failure("TokenizerError", "Tokenizer not initialized")
        /\ succeeded =>
               \/ last.result.ok
               \/ /\ tokenizer = Some("HuggingFace")
                  /\ last.result = Failure("TokenizerError", "encode")

\* A text was encoded by a HuggingFace tokenizer that a from_pretrained
\* had loaded.
C19_Witness ==
    /\ Encoded
    /\ succeeded
    /\ tokenizer = Some("HuggingFace")
    /\ last.arg = <<"t", "e", "s", "t">>
    /\ last.result.ok

(***************************************************************************)
(* C20.  HuggingFaceTokenizer::new returns Err(InsecureProtocol) for a URL *)
(* whose scheme is not https, and Err(InvalidPath) for an argument that is *)
(* not a URL and names a path that does not exist.                         *)
(***************************************************************************)
C20_ClassifiesArgument ==
    last.op = "HuggingFaceTokenizer::new" =>
        /\ (UrlParse(last.arg).ok /\ UrlParse(last.arg).value.scheme # <<"h", "t", "t", "p", "s">>)
               => last.result = Failure("InsecureProtocol", "")
        /\ (~UrlParse(last.arg).ok /\ last.arg \notin world.paths)
               => (~last.result.ok /\ last.result.value = "InvalidPath")

(***************************************************************************)
(* Vocabulary of the properties of the capture loop.                       *)
(***************************************************************************)
\* The capture the loop has just been through.
LastCapture == captures[idx - 1]

\* The loop has just been through a capture that it had not met before.
LastProcessed ==
    /\ pc = "captures"
    /\ idx > 1
    /\ \A i \in 1..(idx - 2) : captures[i] # LastCapture

\* The captures of the name nm under tag that the loop has been through.
CapturesOf(tag, nm) ==
    {i \in 1..(idx - 1) :
        /\ captures[i].tag = tag
        /\ ResolveName(language, tag, captures[i].node) = nm}

(***************************************************************************)
(* C22.  A class capture sets the modifier of the entry from the modifier  *)
(* child of its node; a later class capture of the same name without a     *)
(* modifier child leaves the recorded modifier as it was, so that a rust   *)
(* type declared pub is in the output whatever modifier-less captures of   *)
(* its name follow.                                                        *)
(***************************************************************************)
\* C22: after a class capture whose node has no modifier child, the entry
\* keeps the modifier an earlier capture of the name recorded; for rust, when
\* the call has ended, every name with a class-tagged declaration that
\* carries pub is the name of an emitted entity.
C22_ModifierKeptByLaterCapture ==
    /\ (LastProcessed /\ LastCapture.tag = "class"
          /\ Nodes[LastCapture.node].vis = None /\ name # <<>>
          /\ ~GoDrops(language, name)) =>
           \A i \in CapturesOf("class", name) :
               Nodes[captures[i].node].vis # None =>
                   class_def_map[name].visibility_modifier # None
    /\ (language = "rust" /\ pc = "done") =>
           \A n \in Tagged("class") :
               (DeclaredPub(n) /\ ResolveName(language, "class", n) # <<>>)
                   => Emitted(ResolveName(language, "class", n)) # {}

(***************************************************************************)
(* C23.  A class-tagged and a module-tagged declaration of one name are    *)
(* two entities.                                                           *)
(***************************************************************************)
\* C23: when the call has ended (rust and go, whose rules drop entities, set
\* aside), a name that a class-tagged and a module-tagged declaration of the
\* source both resolve to is the name of two emitted entities, one with the
\* type word of a class and one with the type word "module".
C23_ClassAndModuleAreDistinct ==
    (pc = "done" /\ result = "Ok" /\ language \notin {"rust", "go", "elixir"}) =>
        \A c \in Tagged("class") : \A m \in Tagged("module") :
            LET nm == ResolveName(language, "class", c)
            IN  (nm # <<>> /\ ResolveName(language, "module", m) = nm) =>
                    /\ Cardinality(Emitted(nm)) = 2
                    /\ \E i \in Emitted(nm) :
                           definitions[i].class.type_name = ClassWord
                    /\ \E i \in Emitted(nm) :
                           definitions[i].class.type_name = ModuleWord

(***************************************************************************)
(* C24.  A module capture of a non-empty name N puts an entity N with the  *)
(* type word "module" in the output, in every language and after any       *)
(* captures.                                                               *)
(***************************************************************************)
\* C24: when the call has ended, every non-empty name that a module-tagged
\* declaration of the source resolves to is the name of an emitted entity
\* whose type word is "module".
C24_ModuleCaptureYieldsModule ==
    (pc = "done" /\ result = "Ok") =>
        \A m \in Tagged("module") :
            LET nm == ResolveName(language, "module", m)
            IN  nm # <<>> =>
                    \E i \in Emitted(nm) :
                        definitions[i].class.type_name = ModuleWord

(***************************************************************************)
(* C25.  The duplicate guard is kept per tag.                              *)
(***************************************************************************)
\* The sequence seq with x appended unless x is in it.
AppendNew(seq, x) == IF x \in Range(seq) THEN seq ELSE Append(seq, x)

RECURSIVE FirstMeetings(_, _)
\* The nodes of the captures caps under tag, each at its first capture.
FirstMeetings(caps, tag) ==
    IF caps = <<>> THEN <<>>
    ELSE LET before == FirstMeetings(SubSeq(caps, 1, Len(caps) - 1), tag)
             cap == caps[Len(caps)]
         IN  IF cap.tag = tag THEN AppendNew(before, cap.node) ELSE before

\* C25: while the loop runs, the nodes recorded under a tag are the nodes
\* captured under that tag so far, each once, whatever was captured under
\* other tags; a capture of a node not yet met under its tag is processed
\* (its name is resolved, and a class or module capture of a name that is
\* kept has an entry) even when the node was met under another tag, and a
\* capture met before under the same tag changes nothing.
C25_GuardIsPerTag ==
    (pc = "captures") =>
        /\ \A tag \in {"class", "module", "function", "method", "class_variable"} :
              FirstMeetings(Done, tag) =
                  (IF tag \in DOMAIN captured_nodes THEN captured_nodes[tag]
                   ELSE <<>>)
        /\ LastProcessed =>
              /\ name = ResolveName(language, LastCapture.tag, LastCapture.node)
              /\ (LastCapture.tag \in {"class", "module"} /\ name # <<>>
                    /\ ~(LastCapture.tag = "class" /\ GoDrops(language, name)))
                   => name \in DOMAIN class_def_map

C25_Witness ==
    /\ language = "ruby"
    /\ source = <<7>>
    /\ pc = "captures"
    /\ idx = 4
    /\ captured_nodes["module"] = <<7>>
    /\ captured_nodes["class"] = <<7>>
    /\ DOMAIN class_def_map = {<<"M">>}

(***************************************************************************)
(* C26.  The ruby name of a class or module capture.                       *)
(***************************************************************************)
RECURSIVE RootToLeaf(_)
\* The node n and its ancestors, the root first.
RootToLeaf(n) == IF n = 0 THEN <<>> ELSE Append(RootToLeaf(Nodes[n].parent), n)

RECURSIVE NamesOf(_, _)
\* The names of the nodes of path that are n itself or of kind class or
\* module, in the order of path; a node without a name field gives none.
NamesOf(path, n) ==
    IF path = <<>> THEN <<>>
    ELSE (IF /\ (Head(path) = n \/ Nodes[Head(path)].kind \in {"class", "module"})
             /\ Nodes[Head(path)].name # None
          THEN <<Nodes[Head(path)].name[1]>> ELSE <<>>)
         \o NamesOf(Tail(path), n)

\* The qualified name of node n.
QualifiedName(n) ==
    LET names == NamesOf(RootToLeaf(n), n)
    IN  IF names = <<>> THEN Nodes[n].text
        ELSE Join(names, <<":", ":">>)

\* C26: for ruby, the name resolved for a class or module capture is the
\* names of the node and of its class or module ancestors, root first, joined
\* with "::"; when there is none, it is the text of the node.
C26_RubyQualifiedName ==
    (language = "ruby" /\ LastProcessed /\ LastCapture.tag \in {"class", "module"})
        => name = QualifiedName(LastCapture.node)

C26_Witness ==
    /\ language = "ruby"
    /\ LastProcessed
    /\ LastCapture = [tag |-> "class", node |-> 12]
    /\ name = <<"O", ":", ":", "I">>

(***************************************************************************)
(* C27.  Name resolution never fails and falls back to the text of the     *)
(* captured node.                                                          *)
(***************************************************************************)
\* The node in which the rule of language l looks for the name field.
NamedNode(l, tag, n) ==
    IF l = "csharp" /\ tag = "method" /\ csharp_is_primary_constructor(n)
    THEN Nodes[n].parent
    ELSE IF l = "csharp" /\ tag = "class_variable"
                /\ Nodes[n].variable_declarator # 0
    THEN Nodes[n].variable_declarator
    ELSE n

\* The rule of language l finds a name child of node n: the name field, for
\* scala also the pattern field, for cpp captures other than class an
\* identifier descendant.
HasNameChild(l, tag, n) ==
    IF l = "cpp" /\ tag # "class"
    THEN \/ Nodes[n].field_identifier # None
         \/ Nodes[n].operator_name # None
         \/ Nodes[n].identifier # None
    ELSE \/ Nodes[NamedNode(l, tag, n)].name # None
         \/ l = "scala" /\ Nodes[n].pattern # None

\* A class or module ancestor of node n has a name field.
HasNamedScope(n) ==
    \E i \in 1..Len(RootToLeaf(n)) :
        /\ Nodes[RootToLeaf(n)[i]].kind \in {"class", "module"}
        /\ Nodes[RootToLeaf(n)[i]].name # None

\* C27 as stated: the name resolved for a capture whose node has no name
\* child is the text of the node, in every language.
C27_FallbackIsNodeText ==
    (LastProcessed
       /\ ~HasNameChild(language, LastCapture.tag, LastCapture.node))
        => name = Nodes[LastCapture.node].text

\* C27: a name is resolved for every capture; it is the text of the node when
\* the node has no name child, except for a ruby class or module capture
\* below a named class or module, whose name is the path of those ancestors.
C27_FallbackUnlessRubyScope ==
    LastProcessed =>
        /\ name \in Seq({Ascii[i] : i \in 1..Len(Ascii)})
        /\ ~HasNameChild(language, LastCapture.tag, LastCapture.node) =>
              IF /\ language = "ruby"
                 /\ LastCapture.tag \in {"class", "module"}
                 /\ HasNamedScope(LastCapture.node)
              THEN name = QualifiedName(LastCapture.node)
              ELSE name = Nodes[LastCapture.node].text

C27_Witness ==
    /\ LastProcessed
    /\ language = "python"
    /\ LastCapture = [tag |-> "class", node |-> 10]
    /\ ~HasNameChild(language, "class", 10)
    /\ name = <<"T">>

(***************************************************************************)
(* C29.  validate_network_config returns Ok exactly when max_retries is at *)
(* most 10, both timeouts are at least one whole second and                *)
(* max_download_size is at most 1 GiB; otherwise the ValidationError of    *)
(* the first rule violated, in that order.                                 *)
(***************************************************************************)
\* The rules of a NetworkConfig, in order: whether c breaks the rule, and the
\* message of the rule.
NetworkRules(c) ==
    <<[broken |-> c.max_retries > 10,
       message |-> "network.max_retries cannot exceed 10"],
      [broken |-> c.connect_timeout.secs < 1,
       message |-> "network.connect_timeout must be greater than 0"],
      [broken |-> c.request_timeout.secs < 1,
       message |-> "network.request_timeout must be greater than 0"],
      [broken |-> c.max_download_size > 1073741824,
       message |-> "network.max_download_size cannot exceed 1GB"]>>

\* The rules c breaks.
Broken(c) == {i \in 1..Len(NetworkRules(c)) : NetworkRules(c)[i].broken}

\* C29: the verdict is Ok exactly when no rule is broken, and otherwise the
\* ValidationError with the message of the first broken rule.
C29_NetworkRulesInOrder ==
    verdict # None =>
        /\ verdict[1].ok <=> Broken(network) = {}
        /\ ~verdict[1].ok =>
              /\ verdict[1].value = "ValidationError"
              /\ \E i \in Broken(network) :
                    /\ \A j \in Broken(network) : i <= j
                    /\ verdict[1].cause = NetworkRules(network)[i].message

C29_Witness ==
    /\ verdict # None
    /\ network.max_retries = 10
    /\ network.connect_timeout = [secs |-> 1, nanos |-> 0]
    /\ network.request_timeout = [secs |-> 0, nanos |-> 999999999]
    /\ network.max_download_size = 1073741825
    /\ verdict[1] = Failure("ValidationError",
                            "network.request_timeout must be greater than 0")

(***************************************************************************)
(* Vocabulary of the properties of the threads.                            *)
(***************************************************************************)
\* The thread is between lock() and its return.
Holding(t) == threads[t].pc \in {"locked", "computed"}

\* The thread has the result of a call of op in hand.
Computed(t, op) == threads[t].pc = "computed" /\ threads[t].op = op

\* At most one thread holds the lock.
MutualExclusion == \A t, u \in Threads : (Holding(t) /\ Holding(u)) => t = u

\* The lock is held by the thread between lock() and its return, and by no
\* thread that has returned.
ReleasedOnReturn ==
    /\ \A t \in Threads : Holding(t) <=> holder = t
    /\ (\A t \in Threads : ~Holding(t)) => holder = 0

\* What encode returns on a State found to hold the tokenizer tok.
EncodeOutcomes(tok) ==
    CASE tok = None ->
             {Failure("TokenizerError", "Tokenizer not initialized")}
      [] tok = Some("Tiktoken") -> {Success("tokens")}
      [] tok = Some("HuggingFace") ->
             {Success("tokens"), Failure("TokenizerError", "encode")}

\* No call is running, no thread holds the lock and every call was made.
Quiescent ==
    /\ \A t \in Threads : threads[t].pc = "idle"
    /\ holder = 0
    /\ made = MaxThreadCalls

\* Every call that is made returns: the threads come to rest with all their
\* calls made, whatever the interleaving.
EncodeReturns == <>Quiescent

(***************************************************************************)
(* C21.  Concurrent encode calls on a State with a tokenizer loaded each   *)
(* terminate and return Ok; one thread at most holds the lock, the lock is *)
(* released when an encode returns, and no interleaving deadlocks.         *)
(***************************************************************************)
\* C21 as stated: mutual exclusion, release on return, termination of every
\* encode, and Ok from every encode that finds a tokenizer loaded.
C21_ConcurrentEncodesReturnOk ==
    /\ [](MutualExclusion /\ ReleasedOnReturn)
    /\ [](\A t \in Threads :
             (Computed(t, "encode") /\ threads[t].before # None)
                 => threads[t].result.ok)
    /\ EncodeReturns

\* C21: mutual exclusion, release on return and termination of every encode;
\* an encode that finds a tokenizer loaded returns what that tokenizer
\* returns: Ok with Tiktoken, Ok or the error of the library's encode with
\* HuggingFace, never the error of a State without a tokenizer.
C21_ConcurrentEncodesTerminate ==
    /\ [](MutualExclusion /\ ReleasedOnReturn)
    /\ [](\A t \in Threads :
             Computed(t, "encode") =>
                 /\ threads[t].before = tokenizer
                 /\ threads[t].result \in EncodeOutcomes(threads[t].before))
    /\ EncodeReturns

C21_Witness ==
    /\ tokenizer = Some("Tiktoken")
    /\ Computed(1, "encode")
    /\ threads[1].result.ok
    /\ threads[2].pc = "lock"
    /\ threads[2].op = "encode"
    /\ holder = 1

(***************************************************************************)
(* C30.  A from_pretrained that fails leaves the State as it was, a loaded *)
(* tokenizer included, which later encode calls still succeed with; and it *)
(* releases the lock, so that later calls do not block.                    *)
(***************************************************************************)
\* A from_pretrained that returns Err has left the State as it found it.
FailureKeepsState ==
    \A t \in Threads :
        (Computed(t, "from_pretrained") /\ ~threads[t].result.ok)
            => tokenizer = threads[t].before

\* A thread whose from_pretrained has returned Err does not hold the lock,
\* whoever holds the lock is running a call, and the calls made after a
\* failure return.
FailureReleasesLock ==
    /\ [](\A t \in Threads :
             (threads[t].pc = "idle" /\ threads[t].op = "from_pretrained"
                /\ ~threads[t].result.ok) => holder # t)
    /\ [](holder # 0 => Holding(holder))
    /\ ([]~failed) \/ <>(failed /\ Quiescent)

\* C30 as stated: after a failure the State is as before, every encode on a
\* loaded State returns Ok, and the lock is released.
C30_FailedLoadKeepsEncodeOk ==
    /\ []FailureKeepsState
    /\ [](\A t \in Threads :
             (failed /\ Computed(t, "encode") /\ threads[t].before # None)
                 => threads[t].result.ok)
    /\ FailureReleasesLock

\* C30: after a failure the State is as before, every encode returns what
\* the tokenizer of the State returns (the error of a State without a
\* tokenizer only when there is none), and the lock is released.
C30_FailedLoadKeepsState ==
    /\ []FailureKeepsState
    /\ [](\A t \in Threads :
             (failed /\ Computed(t, "encode"))
                 => threads[t].result \in EncodeOutcomes(tokenizer))
    /\ FailureReleasesLock

C30_Witness ==
    /\ failed
    /\ threads[1].pc = "idle"
    /\ threads[1].op = "from_pretrained"
    /\ ~threads[1].result.ok
    /\ threads[1].before = Some("Tiktoken")
    /\ tokenizer = Some("Tiktoken")
    /\ Computed(2, "encode")
    /\ threads[2].result.ok

(***************************************************************************)
(* C28.  Extraction calls that run side by side on several threads each    *)
(* return what the same call returns when it runs alone: a call writes its *)
(* own maps and entity list only.                                          *)
(***************************************************************************)
\* The captures the loop of worker w has been through.
Processed(w) == SubSeq(workers[w].captures, 1, workers[w].idx - 1)

\* C28: in every interleaving, the maps of a call in its loop are those the
\* call alone has after the same captures, and the definitions a call returns
\* are those of extract_definitions on its arguments.
C28_ConcurrentCallsAreIndependent ==
    \A w \in Workers :
        /\ workers[w].pc = "captures" =>
               cells[MapsOf(w)]
                   = CaptureLoop(workers[w].language, NewMaps, Processed(w))
        /\ workers[w].pc = "done" =>
               workers[w].definitions
                   = extract_definitions(workers[w].language,
                                         workers[w].source)

C28_Witness ==
    /\ workers[1].pc = "done"
    /\ workers[1].beside
    /\ workers[1].language = "ruby"
    /\ workers[1].source = <<3, 8>>
    /\ workers[1].definitions # <<>>
    /\ workers[2].pc = "captures"
    /\ workers[2].language = "rust"
    /\ workers[2].source = <<1, 3>>
    /\ workers[2].idx > 1

====
